---------------------------- MODULE Spec2Model ----------------------------
(***************************************************************************)
(* A model of the conversation search service: the pooled storage engine   *)
(* (src/src/database_enhanced.py), the plain storage manager and the       *)
(* archive importer built on it (src/src/database.py,                      *)
(* src/scripts/import_chatgpt.py) and the secure search engine with its    *)
(* query compiler, cache and audit trail (src/src/search_secure.py).       *)
(*                                                                         *)
(* Text is a sequence of one-character strings; the character \x00 is      *)
(* written "NUL".                                                          *)
(***************************************************************************)
EXTENDS Integers, Sequences, FiniteSets, TLC

VARIABLES
    \* ---- query compiler, run on one query (SpecCompile)
    cq,         \* the raw query handed to the compiler
    cstage,     \* "raw" | "valid" | "rejected" | "compiled"
    cvalid,     \* the validated query (_validate_query's return value)
    cout,       \* the compiled query (_process_secure_query's return value)
    cerr,       \* the ValueError message kind of a rejected query
    \* ---- storage engine, sequential calls (Spec)
    rows,       \* the full-text table `conversations`: a sequence of rows
    meta,       \* the table `metadata`: conversation_id -> row
    call,       \* the last call made and what it returned
    import_history,  \* the table `import_history`: a sequence of rows
    \* ---- storage engine, concurrent callers (SpecConc)
    pool,       \* ConnectionPool._pool: the queue of idle connections
    held,       \* caller -> the connection it holds (0: none)
    pc,         \* caller -> its position inside insert_conversation
    req,        \* caller -> the arguments of its call
    txn,        \* caller -> the uncommitted rows/metadata of its connection
    wlock,      \* the store's single writer lock: the caller holding it, or 0
    ret,        \* caller -> the value returned (-1: none yet)
    all_connections,  \* ConnectionPool._all_connections: the connections made
    tries,      \* caller -> the get_connection calls of it that timed out
    closed,     \* ConnectionPool._closed
    \* ---- archive importer on the plain storage manager (SpecImport)
    irows,      \* the plain manager's full-text table
    imeta,      \* the plain manager's metadata table
    ihist,      \* the plain manager's table import_history
    elements,   \* the export file: the JSON values of its top-level array
    ppos,       \* number of elements parse_conversations has consumed
    yielded,    \* the conversations parse_conversations has yielded
    walk,       \* extract_messages_from_mapping: its mapping, the frames of
                \* traverse_node, the messages collected and how it ended
    archive,    \* the archive file: a sequence of parsed conversations
    ipos,       \* number of archive elements the running import has read
    batch,      \* ChatGPTImporter.import_file's local `batch`
    bsize,      \* ChatGPTImporter.batch_size
    stats,      \* ChatGPTImporter.stats
    run,        \* number of import runs completed
    snap,       \* conversation_id -> rows stored when the first run ended
    \* ---- secure search engine (SpecSearch)
    cacheOn,    \* whether SecureSearchEngine.redis_client is set
    hits,       \* number of rows of the index the compiled query matches
    cache,      \* the cache backend: key -> stored payload
    scall,      \* the last search call: its arguments and what failed in it
    resp,       \* what the last search call gave its caller
    audits      \* the db.log_search_audit calls made by the last search call

compVars   == <<cq, cstage, cvalid, cout, cerr>>
storeVars  == <<rows, meta, call, import_history>>
concVars   == <<pool, held, pc, req, txn, wlock, ret, all_connections, tries,
                closed>>
importVars == <<irows, imeta, ihist, archive, ipos, batch, bsize, stats, run, snap,
                elements, ppos, yielded, walk>>
searchVars == <<cacheOn, hits, cache, scall, resp, audits>>
vars == <<compVars, storeVars, concVars, importVars, searchVars>>

-----------------------------------------------------------------------------
(* Bounds of the model.                                                    *)

\* Number of pieces a generated query is concatenated from.
MaxPieces == 5
\* Longest message list handed to one insert_conversation call.
MaxMsgs == 2
\* Rows the full-text table may hold (calls that would exceed it are not made).
MaxRows == 3
\* Number of concurrent callers of insert_conversation.
NumCallers == 2
\* Largest pool_size a ConnectionPool is constructed with.
MaxPoolSize == 2
\* Number of concurrent callers of get_connection on the pool alone.
NumPoolCallers == 3
\* Number of times a caller calls get_connection again after a timeout.
MaxRetries == 1
\* Longest archive (number of top-level elements) that is imported.
MaxArchive == 2
\* Largest batch_size a ChatGPTImporter is constructed with.
MaxBatch == 2
\* Number of times the importer is run on the archive.
MaxRuns == 2
\* Most rows of the index that match one compiled query.
MaxHits == 2
NumFiles == 2
\* Most elements of the top-level array of an export file.
MaxElements == 3
\* Most children of one node of a mapping table.
MaxChildren == 2
\* Most nested calls of traverse_node before RecursionError
\* (sys.getrecursionlimit(), scaled down).
MaxDepth == 4

-----------------------------------------------------------------------------
(* Text helpers: Python's str methods on sequences of characters.          *)

LowerLetters == <<"a","b","c","d","e","f","g","h","i","j","k","l","m",
                  "n","o","p","q","r","s","t","u","v","w","x","y","z">>
UpperLetters == <<"A","B","C","D","E","F","G","H","I","J","K","L","M",
                  "N","O","P","Q","R","S","T","U","V","W","X","Y","Z">>

Range(s) == { s[i] : i \in DOMAIN s }

\* str.upper() on one character
UpperChar(c) ==
    IF \E i \in DOMAIN LowerLetters : LowerLetters[i] = c
    THEN UpperLetters[CHOOSE i \in DOMAIN LowerLetters : LowerLetters[i] = c]
    ELSE c

\* str.upper()
Upper(s) == [i \in DOMAIN s |-> UpperChar(s[i])]

\* str.isspace() on one character (NUL is not whitespace)
IsSpace(c) == c \in {" ", "\t", "\n"}

\* the regular expression class \w on one character
IsWordChar(c) == c \in Range(LowerLetters) \cup Range(UpperLetters)
                       \cup {"0","1","2","3","4","5","6","7","8","9","_"}

\* str.strip()
Strip(s) ==
    IF \A i \in DOMAIN s : IsSpace(s[i]) THEN <<>>
    ELSE LET lo == CHOOSE i \in DOMAIN s :
                     ~IsSpace(s[i]) /\ \A j \in 1..(i - 1) : IsSpace(s[j])
             hi == CHOOSE i \in DOMAIN s :
                     ~IsSpace(s[i]) /\ \A j \in (i + 1)..Len(s) : IsSpace(s[j])
         IN  SubSeq(s, lo, hi)

\* str.replace(c, '') for one character c
RemoveChar(s, c) == SelectSeq(s, LAMBDA x : x # c)

\* `sub in s`
Contains(s, sub) ==
    \E i \in 1..(Len(s) - Len(sub) + 1) : SubSeq(s, i, i + Len(sub) - 1) = sub

\* the concatenation of a sequence of texts
RECURSIVE Flatten(_)
Flatten(ss) ==
    IF Len(ss) = 0 THEN <<>>
    ELSE IF Len(ss) = 1 THEN ss[1]
    ELSE LET half == Len(ss) \div 2
         IN  Flatten(SubSeq(ss, 1, half)) \o Flatten(SubSeq(ss, half + 1, Len(ss)))

\* sep.join(parts)
RECURSIVE Join(_, _)
Join(parts, sep) ==
    IF parts = <<>> THEN <<>>
    ELSE IF Len(parts) = 1 THEN parts[1]
    ELSE parts[1] \o sep \o Join(Tail(parts), sep)

\* str.split(c) for one character c: the fields between the occurrences of c
SplitOn(s, c) ==
    LET cuts == { i \in DOMAIN s : s[i] = c }
        n    == Cardinality(cuts)
        \* position of the k-th occurrence of c; 0 and Len(s)+1 at the ends
        At(k) == IF k = 0 THEN 0
                 ELSE IF k = n + 1 THEN Len(s) + 1
                 ELSE CHOOSE i \in cuts :
                        Cardinality({ j \in cuts : j <= i }) = k
    IN  [k \in 1..(n + 1) |-> SubSeq(s, At(k - 1) + 1, At(k) - 1)]

\* len(str.split()): the number of maximal runs of non-whitespace
WordCount(s) ==
    Cardinality({ i \in DOMAIN s :
                    /\ ~IsSpace(s[i])
                    /\ (i = 1 \/ IsSpace(s[i - 1])) })

\* n copies of the character c
Rep(c, n) == [i \in 1..n |-> c]

-----------------------------------------------------------------------------
(* SearchConstants (src/src/search_secure.py).                             *)

MAX_QUERY_LENGTH == 500
MIN_QUERY_LENGTH == 1
CACHE_TTL_SECONDS == 300
MAX_RESULTS_PER_PAGE == 100

FTS5_SPECIAL_CHARS == <<"\"", "'", "(", ")", "*", ":", "^">>

BOOLEAN_OPERATORS == << <<"A","N","D">>, <<"O","R">>, <<"N","O","T">>,
                        <<"N","E","A","R">> >>

-----------------------------------------------------------------------------
(* The query compiler: SecureSearchEngine._validate_query and              *)
(* _process_secure_query with its three branches.                          *)

\* a variant of _validate_query that measures the query as it was handed in
ValidateRawLength(query) ==
    IF query = <<>>
    THEN [ok |-> FALSE, text |-> <<>>, err |-> "cannot be empty"]
    ELSE LET q == Strip(RemoveChar(query, "NUL"))
         IN  IF Len(q) < MIN_QUERY_LENGTH
             THEN [ok |-> FALSE, text |-> <<>>, err |-> "too short"]
             ELSE IF Len(query) > MAX_QUERY_LENGTH
             THEN [ok |-> FALSE, text |-> <<>>, err |-> "too long"]
             ELSE [ok |-> TRUE, text |-> q, err |-> "none"]

\* _validate_query: the validated text, or the ValueError it raises
ValidateQuery(query) ==
    IF query = <<>>
    THEN [ok |-> FALSE, text |-> <<>>, err |-> "cannot be empty"]
    ELSE LET q == Strip(RemoveChar(query, "NUL"))
         IN  IF Len(q) < MIN_QUERY_LENGTH
             THEN [ok |-> FALSE, text |-> <<>>, err |-> "too short"]
             ELSE IF Len(q) > MAX_QUERY_LENGTH
             THEN [ok |-> FALSE, text |-> <<>>, err |-> "too long"]
             ELSE [ok |-> TRUE, text |-> q, err |-> "none"]

\* str.replace(c, '\\' + c)
EscapeOne(text, c) ==
    Flatten([i \in DOMAIN text |->
                IF text[i] = c THEN <<"\\", c>> ELSE <<text[i]>>])

\* the loop of _escape_fts5_chars over FTS5_SPECIAL_CHARS[k..]
RECURSIVE EscapeFrom(_, _)
EscapeFrom(text, k) ==
    IF k > Len(FTS5_SPECIAL_CHARS) THEN text
    ELSE IF FTS5_SPECIAL_CHARS[k] # "\""
    THEN EscapeFrom(EscapeOne(text, FTS5_SPECIAL_CHARS[k]), k + 1)
    ELSE EscapeFrom(text, k + 1)

\* _escape_fts5_chars
EscapeFts5Chars(text) == EscapeFrom(text, 1)

\* a variant of _escape_phrase_query that leaves the quotes where they are
EscapeKeepingQuotes(query) == EscapeFts5Chars(query)

\* a variant of _escape_phrase_query that escapes the quoted parts only
EscapeQuotedPartsOnly(query) ==
    LET parts == SplitOn(query, "\"")
        Piece(i) ==
            IF i % 2 = 0
            THEN << <<"\"">> \o EscapeFts5Chars(parts[i]) \o <<"\"">> >>
            ELSE IF Strip(parts[i]) # <<>>
                 THEN << parts[i] >>
                 ELSE <<>>
    IN  Join(Flatten([i \in DOMAIN parts |-> Piece(i)]), <<" ">>)

\* _escape_phrase_query
EscapePhraseQuery(query) ==
    LET parts == SplitOn(query, "\"")
        Piece(i) ==
            IF i % 2 = 0    \* enumerate() counts from 0: parts[i] has index i-1
            THEN << <<"\"">> \o EscapeFts5Chars(parts[i]) \o <<"\"">> >>
            ELSE IF Strip(parts[i]) # <<>>
                 THEN << EscapeFts5Chars(parts[i]) >>
                 ELSE <<>>
    IN  Join(Flatten([i \in DOMAIN parts |-> Piece(i)]), <<" ">>)

\* the regular expression \b(AND|OR|NOT|NEAR)\b, IGNORECASE, matched at i:
\* the length of the match, 0 when there is none
OperatorAt(s, i) ==
    LET Fits(op) ==
            /\ i + Len(op) - 1 <= Len(s)
            /\ Upper(SubSeq(s, i, i + Len(op) - 1)) = op
            /\ (i = 1 \/ ~IsWordChar(s[i - 1]))
            /\ (i + Len(op) > Len(s) \/ ~IsWordChar(s[i + Len(op)]))
        fit == { k \in DOMAIN BOOLEAN_OPERATORS : Fits(BOOLEAN_OPERATORS[k]) }
    IN  IF fit = {} THEN 0
        ELSE Len(BOOLEAN_OPERATORS[CHOOSE k \in fit : \A j \in fit : k <= j])

\* re.split(pattern, s): text and operator parts in turn, scanning from i
\* with the current text part starting at `from`
RECURSIVE ReSplit(_, _, _)
ReSplit(s, from, i) ==
    IF i > Len(s) THEN << SubSeq(s, from, Len(s)) >>
    ELSE LET n == OperatorAt(s, i)
         IN  IF n = 0 THEN ReSplit(s, from, i + 1)
             ELSE << SubSeq(s, from, i - 1), SubSeq(s, i, i + n - 1) >>
                  \o ReSplit(s, i + n, i + n)

\* _process_boolean_query
ProcessBooleanQuery(query) ==
    LET parts == ReSplit(query, 1, 1)
        Piece(part) ==
            IF Upper(part) \in Range(BOOLEAN_OPERATORS)
            THEN << Upper(part) >>
            ELSE LET escaped == EscapeFts5Chars(Strip(part))
                 IN  IF escaped # <<>> THEN << escaped >> ELSE <<>>
    IN  Join(Flatten([i \in DOMAIN parts |-> Piece(parts[i])]), <<" ">>)

\* has_operators of _process_secure_query
HasOperators(query) ==
    \E k \in DOMAIN BOOLEAN_OPERATORS :
        Contains(Upper(query), <<" ">> \o BOOLEAN_OPERATORS[k] \o <<" ">>)

\* _process_secure_query
ProcessSecureQuery(query) ==
    IF "\"" \in Range(query) THEN EscapePhraseQuery(query)
    ELSE IF HasOperators(query) THEN ProcessBooleanQuery(query)
    ELSE LET escaped == EscapeFts5Chars(query)
         IN  IF WordCount(escaped) > 1
             THEN <<"\"">> \o escaped \o <<"\"">>
             ELSE escaped

-----------------------------------------------------------------------------
(* Queries handed to the compiler.                                         *)

\* the pieces a generated query is made of
QueryPieces == { <<"a">>, <<" ">>, <<"o","r">>, <<"O","R">>, <<"\"">>,
                 <<"'">>, <<"(">> }

\* every concatenation of at most n pieces
RECURSIVE PieceQueries(_)
PieceQueries(n) ==
    IF n = 0 THEN { <<>> }
    ELSE LET shorter == PieceQueries(n - 1)
         IN  shorter \cup { p \o q : p \in QueryPieces, q \in shorter }

\* queries at the length limits and with null bytes
EdgeQueries ==
    { <<"NUL">>, <<" ", "NUL">>, <<"a", "NUL", "b">>,
      Rep("x", MAX_QUERY_LENGTH), Rep("x", MAX_QUERY_LENGTH + 1),
      <<" ">> \o Rep("x", MAX_QUERY_LENGTH) \o <<"NUL", " ">> }

CompilerQueries == PieceQueries(MaxPieces) \cup EdgeQueries

-----------------------------------------------------------------------------
(* The compiler run on one query.                                          *)

CompIdle ==
    /\ cq = <<>> /\ cstage = "idle" /\ cvalid = <<>> /\ cout = <<>>
    /\ cerr = "none"

CompInit ==
    /\ cq \in CompilerQueries
    /\ cstage = "raw" /\ cvalid = <<>> /\ cout = <<>> /\ cerr = "none"

\* query = self._validate_query(query)
Validate ==
    /\ cstage = "raw"
    /\ LET v == ValidateQuery(cq)
       IN  /\ cstage' = IF v.ok THEN "valid" ELSE "rejected"
           /\ cvalid' = v.text
           /\ cerr' = v.err
    /\ UNCHANGED <<cq, cout>>
    /\ UNCHANGED <<storeVars, concVars, importVars, searchVars>>

\* processed_query = self._process_secure_query(query)
Compile ==
    /\ cstage = "valid"
    /\ cout' = ProcessSecureQuery(cvalid)
    /\ cstage' = "compiled"
    /\ UNCHANGED <<cq, cvalid, cerr>>
    /\ UNCHANGED <<storeVars, concVars, importVars, searchVars>>

-----------------------------------------------------------------------------
(* The storage engine's data (src/src/database_enhanced.py).               *)

ConvIds == {"c1", "c2", "c3"}
\* the ids the sequential calls are made on
CallIds == {"c1", "c2"}
Titles  == {"Untitled"}

\* (sender, content, timestamp) tuples; timestamps are numbered in time order
Hello == [sender |-> "User", content |-> "hello", ts |-> 1]
Hi    == [sender |-> "Assistant", content |-> "hi", ts |-> 2]
Messages == {Hello, Hi}

\* every message list of at most n messages
RECURSIVE MsgLists(_)
MsgLists(n) ==
    IF n = 0 THEN { <<>> }
    ELSE LET shorter == MsgLists(n - 1)
         IN  shorter \cup { <<m>> \o l : m \in Messages, l \in shorter }

DigitChars == <<"0","1","2","3","4","5","6","7","8","9">>

\* '%0*d' % (width, n)
RECURSIVE ZeroPadded(_, _)
ZeroPadded(n, width) ==
    IF width = 0 THEN <<>>
    ELSE ZeroPadded(n \div 10, width - 1) \o << DigitChars[(n % 10) + 1] >>

\* the naive datetime that timestamp number ts stands for: half a second
\* apart, starting at 2024-01-01 00:00:00
Datetime(ts) ==
    [year |-> 2024, month |-> 1, day |-> 1, hour |-> 0, minute |-> 0,
     second |-> (ts - 1) \div 2,
     microsecond |-> ((ts - 1) % 2) * 500000]

\* datetime.isoformat() of a naive datetime, the text stored in the
\* timestamp columns: YYYY-MM-DDTHH:MM:SS, followed by .ffffff when the
\* microsecond is not 0
DatetimeIsoformat(ts) ==
    LET d == Datetime(ts)
    IN  [iso |-> ZeroPadded(d.year, 4) \o <<"-">> \o ZeroPadded(d.month, 2)
                 \o <<"-">> \o ZeroPadded(d.day, 2) \o <<"T">>
                 \o ZeroPadded(d.hour, 2) \o <<":">> \o ZeroPadded(d.minute, 2)
                 \o <<":">> \o ZeroPadded(d.second, 2)
                 \o (IF d.microsecond = 0 THEN <<>>
                     ELSE <<".">> \o ZeroPadded(d.microsecond, 6))]

\* the texts of the timestamps in use, 9 being datetime.now()
IsoTexts == [ts \in 1..9 |-> DatetimeIsoformat(ts)]

\* timestamp.isoformat()
IsoFormat(ts) == IsoTexts[ts]

\* datetime.now(), later than every message timestamp
Now == IsoFormat(9)

\* _calculate_checksum on a message list: SHA-256 over str(item) of each
\* item in order, taken as collision free
CalculateChecksum(data) == <<"sha256", data>>

\* `checksum` left out (None) or empty: `not checksum` holds
NoChecksum == <<"", <<>>>>

\* the checksum arguments a caller passes
ChecksumArgs ==
    {NoChecksum} \cup { CalculateChecksum(l) : l \in MsgLists(1) }

\* checksum = self._calculate_checksum(messages) if not checksum
EffectiveChecksum(checksum, messages) ==
    IF checksum[1] = "" THEN CalculateChecksum(messages) ELSE checksum

\* a variant of the duplicate test that never finds the stored checksum
NeverImported(metadata, conversation_id, checksum) == FALSE

\* existing and existing['checksum'] == checksum
AlreadyImported(metadata, conversation_id, checksum) ==
    /\ conversation_id \in DOMAIN metadata
    /\ metadata[conversation_id].checksum = checksum

\* message_data
MessageData(conversation_id, messages) ==
    [i \in DOMAIN messages |->
        [conversation_id |-> conversation_id,
         timestamp |-> IsoFormat(messages[i].ts),
         sender |-> messages[i].sender,
         content |-> messages[i].content]]

\* a variant of the metadata row that counts one message more than submitted
MetadataRowCountingOneMore(title, messages, checksum) ==
    [title |-> title,
     message_count |-> Len(messages) + 1,
     created_at |-> IF messages # <<>> THEN IsoFormat(messages[1].ts) ELSE Now,
     updated_at |-> IF messages # <<>>
                    THEN IsoFormat(messages[Len(messages)].ts) ELSE Now,
     checksum |-> checksum]

\* the row of INSERT OR REPLACE INTO metadata
MetadataRow(title, messages, checksum) ==
    [title |-> title,
     message_count |-> Len(messages),
     created_at |-> IF messages # <<>> THEN IsoFormat(messages[1].ts) ELSE Now,
     updated_at |-> IF messages # <<>>
                    THEN IsoFormat(messages[Len(messages)].ts) ELSE Now,
     checksum |-> checksum]

\* INSERT OR REPLACE on the primary key conversation_id
Upsert(metadata, conversation_id, row) ==
    [id \in DOMAIN metadata \cup {conversation_id} |->
        IF id = conversation_id THEN row ELSE metadata[id]]

\* SELECT COUNT(*) FROM conversations WHERE conversation_id = ?
RowCount(table, conversation_id) ==
    Cardinality({ i \in DOMAIN table :
                    table[i].conversation_id = conversation_id })

\* the byte of a character of a timestamp text
CharCode(c) ==
    CASE c = "-" -> 45
      [] c = "." -> 46
      [] c = ":" -> 58
      [] c = "T" -> 84
      [] OTHER -> 48 + (CHOOSE d \in 0..9 : DigitChars[d + 1] = c)

\* a <= b in the BINARY collation of TEXT values: byte by byte, a prefix
\* before its extensions
RECURSIVE TextLeq(_, _)
TextLeq(a, b) ==
    IF a = <<>> THEN TRUE
    ELSE IF b = <<>> THEN FALSE
    ELSE IF a[1] = b[1] THEN TextLeq(Tail(a), Tail(b))
    ELSE CharCode(a[1]) < CharCode(b[1])

\* one row put into a list of rows that is in timestamp order, after the
\* rows that are not greater
RECURSIVE InsertByTimestamp(_, _)
InsertByTimestamp(sorted, row) ==
    IF sorted = <<>> THEN << row >>
    ELSE IF TextLeq(sorted[1].timestamp.iso, row.timestamp.iso)
    THEN << sorted[1] >> \o InsertByTimestamp(Tail(sorted), row)
    ELSE << row >> \o sorted

\* ORDER BY timestamp
RECURSIVE OrderByTimestamp(_)
OrderByTimestamp(table) ==
    IF table = <<>> THEN <<>>
    ELSE InsertByTimestamp(
            OrderByTimestamp(SubSeq(table, 1, Len(table) - 1)),
            table[Len(table)])

\* a variant of the query without its ORDER BY: rows in rowid order
SelectMessagesUnordered(table, conversation_id) ==
    LET found == SelectSeq(table,
                    LAMBDA r : r.conversation_id = conversation_id)
    IN  [i \in DOMAIN found |->
            [timestamp |-> found[i].timestamp,
             sender |-> found[i].sender,
             content |-> found[i].content]]

\* SELECT timestamp, sender, content FROM conversations
\* WHERE conversation_id = ? ORDER BY timestamp
SelectMessages(table, conversation_id) ==
    LET found == OrderByTimestamp(
                    SelectSeq(table,
                        LAMBDA r : r.conversation_id = conversation_id))
    IN  [i \in DOMAIN found |->
            [timestamp |-> found[i].timestamp,
             sender |-> found[i].sender,
             content |-> found[i].content]]

\* DatabaseManager.get_conversation: <<>> for None, else << result >>
GetConversation(table, metadata, conversation_id) ==
    IF conversation_id \notin DOMAIN metadata
    THEN <<>>
    ELSE << [conversation_id |-> conversation_id,
             metadata |-> metadata[conversation_id],
             messages |-> SelectMessages(table, conversation_id)] >>

NoCall == [op |-> "none", id |-> "", checksum |-> NoChecksum, ret |-> 0]

-----------------------------------------------------------------------------
(* Sequential calls on the storage engine: every call runs to its return   *)
(* before the next one starts.                                             *)

StoreIdle ==
    rows = <<>> /\ meta = <<>> /\ call = NoCall /\ import_history = <<>>

StoreInit ==
    rows = <<>> /\ meta = <<>> /\ call = NoCall /\ import_history = <<>>

\* DatabaseManager.insert_conversation (database_enhanced.py), one caller
InsertConversation(conversation_id, title, messages, checksum_arg) ==
    LET checksum == EffectiveChecksum(checksum_arg, messages)
    IN  IF AlreadyImported(meta, conversation_id, checksum)
        THEN /\ call' = [op |-> "insert", id |-> conversation_id,
                         checksum |-> checksum, ret |-> 0]
             /\ UNCHANGED <<rows, meta>>
        ELSE /\ Len(rows) + Len(messages) <= MaxRows
             /\ rows' = rows \o MessageData(conversation_id, messages)
             /\ meta' = Upsert(meta, conversation_id,
                               MetadataRow(title, messages, checksum))
             /\ call' = [op |-> "insert", id |-> conversation_id,
                         checksum |-> checksum, ret |-> Len(messages)]

Insert ==
    /\ \E id \in CallIds, title \in Titles, messages \in MsgLists(MaxMsgs),
          checksum \in ChecksumArgs :
            InsertConversation(id, title, messages, checksum)
    /\ UNCHANGED import_history
    /\ UNCHANGED <<compVars, concVars, importVars, searchVars>>

\* the source files whose imports are recorded, each named by its checksum
FileChecksums == { <<"sha256", "file", f>> : f \in 1..NumFiles }

\* the arguments of the record_import calls made
ImportRecords ==
    [file_path : {"a.json", "b.json"}, file_size : {10},
     conversations : {1, 2}, messages : {3}, duration : {1},
     checksum : FileChecksums]

\* a variant of the test that never finds the checksum recorded
NeverRecorded(history, checksum) == FALSE

\* existing: SELECT id FROM import_history WHERE file_checksum = ?
AlreadyRecorded(history, checksum) ==
    \E i \in DOMAIN history : history[i].file_checksum = checksum

\* DatabaseManager.record_import (database_enhanced.py), one caller; ret is
\* the number of rows it wrote.  No row is ever deleted, so AUTOINCREMENT
\* numbers the rows 1, 2, ...
RecordImport(file_path, file_size, conversations, messages, duration, checksum) ==
    IF AlreadyRecorded(import_history, checksum)
    THEN /\ call' = [op |-> "record_import", id |-> file_path,
                     checksum |-> checksum, ret |-> 0]
         /\ UNCHANGED import_history
    ELSE /\ import_history' =
                Append(import_history,
                       [id |-> Len(import_history) + 1,
                        file_path |-> file_path,
                        file_size |-> file_size,
                        file_checksum |-> checksum,
                        conversations_imported |-> conversations,
                        messages_imported |-> messages,
                        duration_seconds |-> duration])
         /\ call' = [op |-> "record_import", id |-> file_path,
                     checksum |-> checksum, ret |-> 1]

RecordImportCall ==
    /\ \E r \in ImportRecords :
          RecordImport(r.file_path, r.file_size, r.conversations, r.messages,
                       r.duration, r.checksum)
    /\ UNCHANGED <<rows, meta>>
    /\ UNCHANGED <<compVars, concVars, importVars, searchVars>>

-----------------------------------------------------------------------------
(* Concurrent callers of insert_conversation, each on a worker thread of   *)
(* its own.  A connection runs SELECT outside any transaction; its first   *)
(* INSERT opens the write transaction and takes the store's writer lock,   *)
(* waiting up to busy_timeout for it; conn.commit() publishes the          *)
(* transaction and frees the lock.                                         *)

Callers == 1..NumCallers

\* the calls the concurrent callers make; the checksum is left to be computed
ConcRequests ==
    [id : ConvIds, title : Titles, messages : { <<Hello>>, <<Hello, Hi>> }]

NoTxn == [rows |-> <<>>, meta |-> <<>>]

Terminal(t) ==
    pc[t] \in {"done", "raised_timeout", "raised_locked", "raised_error"}

ConcIdle ==
    /\ pool = <<>> /\ held = <<>> /\ pc = <<>> /\ req = <<>> /\ txn = <<>>
    /\ wlock = 0 /\ ret = <<>> /\ all_connections = {} /\ tries = <<>>
    /\ closed = FALSE

\* ConnectionPool.__init__ and the callers about to call
ConcInit ==
    /\ \E pool_size \in 1..MaxPoolSize :
          /\ pool = [i \in 1..pool_size |-> i]
          /\ all_connections = 1..pool_size
    /\ tries = [t \in Callers |-> 0]
    /\ held = [t \in Callers |-> 0]
    /\ pc = [t \in Callers |-> "start"]
    /\ req \in [Callers -> ConcRequests]
    /\ txn = [t \in Callers |-> NoTxn]
    /\ wlock = 0
    /\ ret = [t \in Callers |-> -1]
    /\ closed = FALSE

\* Queue(maxsize=pool_size): put blocks while the queue is full
QueueFull == Len(pool) >= Cardinality(all_connections)

\* a variant of the acquisition that hands out the connection at the head of
\* the queue and leaves it in the queue
AcquireWithoutGet(t) ==
    /\ pc[t] = "start"
    /\ pool # <<>>
    /\ held' = [held EXCEPT ![t] = Head(pool)]
    /\ pc' = [pc EXCEPT ![t] = "select"]
    /\ UNCHANGED <<pool, req, txn, wlock, ret, rows, meta>>
    /\ UNCHANGED <<all_connections, tries>>
    /\ UNCHANGED <<call, import_history, closed, compVars, importVars, searchVars>>

\* conn = self._pool.get(timeout=timeout)
Acquire(t) ==
    /\ pc[t] = "start"
    /\ pool # <<>>
    /\ held' = [held EXCEPT ![t] = Head(pool)]
    /\ pool' = Tail(pool)
    /\ pc' = [pc EXCEPT ![t] = "select"]
    /\ UNCHANGED <<req, txn, wlock, ret, rows, meta>>
    /\ UNCHANGED <<all_connections, tries>>
    /\ UNCHANGED <<call, import_history, closed, compVars, importVars, searchVars>>

\* a variant of the timeout whose finally clause puts a connection into the
\* queue although none was taken
PoolTimeoutPutsBack(t) ==
    /\ pc[t] = "start"
    /\ pool = <<>>
    /\ pool' = << CHOOSE c \in all_connections : TRUE >>
    /\ pc' = [pc EXCEPT ![t] = "raised_timeout"]
    /\ UNCHANGED <<held, req, txn, wlock, ret, rows, meta>>
    /\ UNCHANGED <<all_connections, tries>>
    /\ UNCHANGED <<call, import_history, closed, compVars, importVars, searchVars>>

\* except Empty: raise TimeoutError(...); conn is None, nothing is put back
PoolTimeout(t) ==
    /\ pc[t] = "start"
    /\ pool = <<>>
    /\ pc' = [pc EXCEPT ![t] = "raised_timeout"]
    /\ UNCHANGED <<pool, held, req, txn, wlock, ret, rows, meta>>
    /\ UNCHANGED <<all_connections, tries>>
    /\ UNCHANGED <<call, import_history, closed, compVars, importVars, searchVars>>

\* existing = conn.execute("SELECT checksum ...").fetchone() and the test on it
SelectExisting(t) ==
    /\ pc[t] = "select"
    /\ IF AlreadyImported(meta, req[t].id, CalculateChecksum(req[t].messages))
       THEN /\ ret' = [ret EXCEPT ![t] = 0]
            /\ pc' = [pc EXCEPT ![t] = "commit"]
       ELSE /\ pc' = [pc EXCEPT ![t] = "insert"]
            /\ UNCHANGED ret
    /\ UNCHANGED <<pool, held, req, txn, wlock, rows, meta>>
    /\ UNCHANGED <<all_connections, tries>>
    /\ UNCHANGED <<call, import_history, closed, compVars, importVars, searchVars>>

\* a variant of the INSERT that runs in autocommit mode: the rows are in the
\* store at once
InsertRowsAutocommit(t) ==
    /\ pc[t] = "insert"
    /\ wlock = 0
    /\ wlock' = t
    /\ rows' = rows \o MessageData(req[t].id, req[t].messages)
    /\ pc' = [pc EXCEPT ![t] = "upsert"]
    /\ UNCHANGED <<pool, held, req, ret, txn, meta>>
    /\ UNCHANGED <<all_connections, tries>>
    /\ UNCHANGED <<call, import_history, closed, compVars, importVars, searchVars>>

\* conn.executemany("INSERT INTO conversations ...", message_data)
InsertRows(t) ==
    /\ pc[t] = "insert"
    /\ wlock = 0
    /\ wlock' = t
    /\ txn' = [txn EXCEPT ![t].rows = MessageData(req[t].id, req[t].messages)]
    /\ pc' = [pc EXCEPT ![t] = "upsert"]
    /\ UNCHANGED <<pool, held, req, ret, rows, meta>>
    /\ UNCHANGED <<all_connections, tries>>
    /\ UNCHANGED <<call, import_history, closed, compVars, importVars, searchVars>>

\* the INSERT waits busy_timeout for the writer lock and raises
\* sqlite3.OperationalError; get_connection rolls back, puts the connection
\* back and re-raises
BusyTimeout(t) ==
    /\ pc[t] = "insert"
    /\ wlock \notin {0, t}
    /\ txn' = [txn EXCEPT ![t] = NoTxn]
    /\ ~QueueFull
    /\ pool' = Append(pool, held[t])
    /\ held' = [held EXCEPT ![t] = 0]
    /\ pc' = [pc EXCEPT ![t] = "raised_locked"]
    /\ UNCHANGED <<req, wlock, ret, rows, meta>>
    /\ UNCHANGED <<all_connections, tries>>
    /\ UNCHANGED <<call, import_history, closed, compVars, importVars, searchVars>>

\* conn.execute("INSERT OR REPLACE INTO metadata ...") and return len(messages)
UpsertMetadata(t) ==
    /\ pc[t] = "upsert"
    /\ txn' = [txn EXCEPT ![t].meta =
                 << MetadataRow(req[t].title, req[t].messages,
                                CalculateChecksum(req[t].messages)) >>]
    /\ ret' = [ret EXCEPT ![t] = Len(req[t].messages)]
    /\ pc' = [pc EXCEPT ![t] = "commit"]
    /\ UNCHANGED <<pool, held, req, wlock, rows, meta>>
    /\ UNCHANGED <<all_connections, tries>>
    /\ UNCHANGED <<call, import_history, closed, compVars, importVars, searchVars>>

\* the metadata statement raises sqlite3.Error (the disk is full, an I/O
\* error) after the message rows were inserted: get_connection rolls the
\* transaction back, puts the connection back and re-raises
UpsertRaises(t) ==
    /\ pc[t] = "upsert"
    /\ txn' = [txn EXCEPT ![t] = NoTxn]
    /\ wlock' = IF wlock = t THEN 0 ELSE wlock
    /\ ~QueueFull
    /\ pool' = Append(pool, held[t])
    /\ held' = [held EXCEPT ![t] = 0]
    /\ pc' = [pc EXCEPT ![t] = "raised_error"]
    /\ UNCHANGED <<req, ret, rows, meta>>
    /\ UNCHANGED <<all_connections, tries>>
    /\ UNCHANGED <<call, import_history, closed, compVars, importVars, searchVars>>

\* get_connection after the yield: conn.commit(), then self._pool.put(conn)
Commit(t) ==
    /\ pc[t] = "commit"
    /\ rows' = rows \o txn[t].rows
    /\ meta' = IF txn[t].meta = <<>> THEN meta
               ELSE Upsert(meta, req[t].id, txn[t].meta[1])
    /\ wlock' = IF wlock = t THEN 0 ELSE wlock
    /\ txn' = [txn EXCEPT ![t] = NoTxn]
    /\ ~QueueFull
    /\ pool' = Append(pool, held[t])
    /\ held' = [held EXCEPT ![t] = 0]
    /\ pc' = [pc EXCEPT ![t] = "done"]
    /\ UNCHANGED <<req, ret>>
    /\ UNCHANGED <<all_connections, tries>>
    /\ UNCHANGED <<call, import_history, closed, compVars, importVars, searchVars>>

-----------------------------------------------------------------------------
(* The connection pool on its own: callers of get_connection whose body    *)
(* reads the store (as the search queries do) and returns or raises; a     *)
(* caller whose call timed out may call again.                             *)

PoolCallers == 1..NumPoolCallers

\* ConnectionPool.__init__ and the callers about to call get_connection
PoolInit ==
    /\ \E pool_size \in 1..MaxPoolSize :
          /\ pool = [i \in 1..pool_size |-> i]
          /\ all_connections = 1..pool_size
    /\ held = [t \in PoolCallers |-> 0]
    /\ pc = [t \in PoolCallers |-> "start"]
    /\ tries = [t \in PoolCallers |-> 0]
    /\ req = <<>> /\ txn = <<>> /\ wlock = 0 /\ ret = <<>>
    /\ closed = FALSE

\* a variant of the normal ending that never puts the connection back
BodyReturnsKeepingConnection(t) ==
    /\ pc[t] = "select"
    /\ held' = [held EXCEPT ![t] = 0]
    /\ pc' = [pc EXCEPT ![t] = "done"]
    /\ UNCHANGED <<pool, req, txn, wlock, ret, rows, meta, all_connections, tries>>
    /\ UNCHANGED <<call, import_history, closed, compVars, importVars, searchVars>>

\* the body of the with block ends normally: conn.commit(), then the finally
\* clause puts the connection back
BodyReturns(t) ==
    /\ pc[t] = "select"
    /\ ~closed
    /\ ~QueueFull
    /\ pool' = Append(pool, held[t])
    /\ held' = [held EXCEPT ![t] = 0]
    /\ pc' = [pc EXCEPT ![t] = "done"]
    /\ UNCHANGED <<req, txn, wlock, ret, rows, meta, all_connections, tries>>
    /\ UNCHANGED <<call, import_history, closed, compVars, importVars, searchVars>>

\* the body raises: conn.rollback(), raise, and the finally clause puts the
\* connection back
BodyRaises(t) ==
    /\ pc[t] = "select"
    /\ ~closed
    /\ ~QueueFull
    /\ pool' = Append(pool, held[t])
    /\ held' = [held EXCEPT ![t] = 0]
    /\ pc' = [pc EXCEPT ![t] = "raised_error"]
    /\ UNCHANGED <<req, txn, wlock, ret, rows, meta, all_connections, tries>>
    /\ UNCHANGED <<call, import_history, closed, compVars, importVars, searchVars>>

\* a caller that got TimeoutError calls get_connection again
Retry(t) ==
    /\ pc[t] = "raised_timeout"
    /\ tries[t] < MaxRetries
    /\ tries' = [tries EXCEPT ![t] = @ + 1]
    /\ pc' = [pc EXCEPT ![t] = "start"]
    /\ UNCHANGED <<pool, held, req, txn, wlock, ret, rows, meta, all_connections>>
    /\ UNCHANGED <<call, import_history, closed, compVars, importVars, searchVars>>

\* get_connection up to its try block: `if self._closed: raise RuntimeError`
CheckClosed(t) ==
    /\ pc[t] = "start"
    /\ pc' = [pc EXCEPT ![t] = IF closed THEN "raised_closed" ELSE "get"]
    /\ UNCHANGED <<pool, held, req, txn, wlock, ret, rows, meta>>
    /\ UNCHANGED <<all_connections, tries, closed>>
    /\ UNCHANGED <<call, import_history, compVars, importVars, searchVars>>

\* conn = self._pool.get(timeout=timeout) of a caller past the test of
\* _closed, and `yield conn`
GetConnection(t) ==
    /\ pc[t] = "get"
    /\ pool # <<>>
    /\ held' = [held EXCEPT ![t] = Head(pool)]
    /\ pool' = Tail(pool)
    /\ pc' = [pc EXCEPT ![t] = "select"]
    /\ UNCHANGED <<req, txn, wlock, ret, rows, meta>>
    /\ UNCHANGED <<all_connections, tries, closed>>
    /\ UNCHANGED <<call, import_history, compVars, importVars, searchVars>>

\* the queue stays empty for `timeout` seconds: Empty, raised as TimeoutError
GetTimeout(t) ==
    /\ pc[t] = "get"
    /\ pool = <<>>
    /\ pc' = [pc EXCEPT ![t] = "raised_timeout"]
    /\ UNCHANGED <<pool, held, req, txn, wlock, ret, rows, meta>>
    /\ UNCHANGED <<all_connections, tries, closed>>
    /\ UNCHANGED <<call, import_history, compVars, importVars, searchVars>>

\* the body ends on a pool that has been closed: conn.commit() (or
\* conn.rollback()) raises on the closed connection, and the finally clause
\* does not put the connection back
BodyEndsClosed(t) ==
    /\ pc[t] = "select"
    /\ closed
    /\ held' = [held EXCEPT ![t] = 0]
    /\ pc' = [pc EXCEPT ![t] = "raised_error"]
    /\ UNCHANGED <<pool, req, txn, wlock, ret, rows, meta>>
    /\ UNCHANGED <<all_connections, tries, closed>>
    /\ UNCHANGED <<call, import_history, compVars, importVars, searchVars>>

\* ConnectionPool.close_all: under _lock, nothing when already closed, else
\* _closed is set and every connection of _all_connections is closed; the
\* queue is left as it is
CloseAll ==
    /\ closed' = TRUE
    /\ UNCHANGED <<pool, held, pc, req, txn, wlock, ret, rows, meta>>
    /\ UNCHANGED <<all_connections, tries>>
    /\ UNCHANGED <<call, import_history, compVars, importVars, searchVars>>

-----------------------------------------------------------------------------
(* The plain storage manager (src/src/database.py) and the archive         *)
(* importer that feeds it (src/scripts/import_chatgpt.py).                 *)

\* str.lower() on one character
LowerChar(c) ==
    IF \E i \in DOMAIN UpperLetters : UpperLetters[i] = c
    THEN LowerLetters[CHOOSE i \in DOMAIN UpperLetters : UpperLetters[i] = c]
    ELSE c

\* str.capitalize()
Capitalize(s) ==
    [i \in DOMAIN s |-> IF i = 1 THEN UpperChar(s[i]) ELSE LowerChar(s[i])]

\* the parsed conversations an archive is made of (streaming_parser.Conversation)
ArchiveConversations ==
    { [id |-> "c1", title |-> "Untitled",
       messages |-> << [author_role |-> <<"u","s","e","r">>,
                        content |-> <<"h","i">>, create_time |-> 1] >>],
      [id |-> "c2", title |-> "Untitled",
       messages |-> << [author_role |-> <<"u","s","e","r">>,
                        content |-> <<" ">>, create_time |-> 1],
                       [author_role |-> <<"b","o","t">>,
                        content |-> <<"o","k">>, create_time |-> 2] >>],
      [id |-> "c3", title |-> "Untitled",
       messages |-> << [author_role |-> <<"u","s","e","r">>,
                        content |-> <<>>, create_time |-> 1] >>] }

\* every archive of at most n conversations
RECURSIVE Archives(_)
Archives(n) ==
    IF n = 0 THEN { <<>> }
    ELSE LET shorter == Archives(n - 1)
         IN  shorter \cup { <<c>> \o a : c \in ArchiveConversations, a \in shorter }

\* ChatGPTImporter._prepare_messages
RECURSIVE PrepareMessages(_)
PrepareMessages(msgs) ==
    IF msgs = <<>> THEN <<>>
    ELSE LET msg == Head(msgs)
         IN  IF msg.content = <<>> \/ Strip(msg.content) = <<>>
             THEN PrepareMessages(Tail(msgs))
             ELSE << [sender |-> Capitalize(msg.author_role),
                      content |-> msg.content,
                      ts |-> msg.create_time] >>
                  \o PrepareMessages(Tail(msgs))

\* the row of INSERT OR REPLACE INTO metadata (database.py: no checksum column)
PlainMetadataRow(title, messages) ==
    [title |-> title,
     message_count |-> Len(messages),
     created_at |-> IF messages # <<>> THEN IsoFormat(messages[1].ts) ELSE Now,
     updated_at |-> IF messages # <<>>
                    THEN IsoFormat(messages[Len(messages)].ts) ELSE Now]

\* DatabaseManager.insert_conversation (database.py) on the store
\* db = [rows, meta]: the store after the call
PlainInsertConversation(db, conversation_id, title, messages) ==
    [rows |-> db.rows \o MessageData(conversation_id, messages),
     meta |-> Upsert(db.meta, conversation_id, PlainMetadataRow(title, messages))]

\* ChatGPTImporter._process_batch: the store and the stats after the batch
RECURSIVE ProcessBatch(_, _, _)
ProcessBatch(db, st, items) ==
    IF items = <<>> THEN [db |-> db, stats |-> st]
    ELSE LET conversation == Head(items)[1]
             messages == Head(items)[2]
         IN  ProcessBatch(
                 PlainInsertConversation(db, conversation.id, conversation.title,
                                         messages),
                 [st EXCEPT !.conversations = @ + 1,
                            !.messages = @ + Len(messages)],
                 Tail(items))

NoStats == [conversations |-> 0, messages |-> 0, errors |-> 0]

NoWalk == [mapping |-> <<>>, stack |-> <<>>, messages |-> <<>>,
           status |-> "none"]

ImportIdle ==
    /\ irows = <<>> /\ imeta = <<>> /\ ihist = <<>> /\ archive = <<>>
    /\ ipos = 0 /\ batch = <<>> /\ bsize = 0 /\ stats = NoStats /\ run = 0
    /\ snap = <<>>
    /\ elements = <<>> /\ ppos = 0 /\ yielded = <<>> /\ walk = NoWalk

\* an empty store, an archive file, and ChatGPTImporter.__init__
ImportInit ==
    /\ irows = <<>> /\ imeta = <<>> /\ ihist = <<>>
    /\ archive \in Archives(MaxArchive) \ { <<>> }
    /\ ipos = 0 /\ batch = <<>>
    /\ bsize \in 1..MaxBatch
    /\ stats = NoStats
    /\ run = 0
    /\ snap = [id \in ConvIds |-> 0]
    /\ elements = <<>> /\ ppos = 0 /\ yielded = <<>> /\ walk = NoWalk

\* one iteration of `for conversation in parser.parse_conversations()`
ReadConversation ==
    /\ run < MaxRuns
    /\ ipos < Len(archive)
    /\ ipos' = ipos + 1
    /\ LET conversation == archive[ipos + 1]
           messages == PrepareMessages(conversation.messages)
           grown == IF messages # <<>>
                    THEN Append(batch, <<conversation, messages>>)
                    ELSE batch
       IN  IF messages # <<>> /\ Len(grown) >= bsize
           THEN LET done == ProcessBatch([rows |-> irows, meta |-> imeta],
                                         stats, grown)
                IN  /\ irows' = done.db.rows
                    /\ imeta' = done.db.meta
                    /\ stats' = done.stats
                    /\ batch' = <<>>
           ELSE /\ batch' = grown
                /\ UNCHANGED <<irows, imeta, stats>>
    /\ UNCHANGED <<ihist, archive, bsize, run, snap>>
    /\ UNCHANGED <<elements, ppos, yielded, walk>>
    /\ UNCHANGED <<storeVars, compVars, concVars, searchVars>>

\* the end of import_file: the remaining batch, record_import, optimize; the
\* next run is made with a new ChatGPTImporter on the same database
FinishImport ==
    /\ run < MaxRuns
    /\ ipos = Len(archive)
    /\ LET done == ProcessBatch([rows |-> irows, meta |-> imeta], stats, batch)
       IN  /\ irows' = done.db.rows
           /\ imeta' = done.db.meta
           /\ ihist' = Append(ihist,
                              [conversations_imported |-> done.stats.conversations,
                               messages_imported |-> done.stats.messages])
           /\ snap' = IF run = 0
                      THEN [id \in ConvIds |-> RowCount(done.db.rows, id)]
                      ELSE snap
    /\ batch' = <<>>
    /\ stats' = NoStats
    /\ ipos' = 0
    /\ run' = run + 1
    /\ UNCHANGED <<archive, bsize>>
    /\ UNCHANGED <<elements, ppos, yielded, walk>>
    /\ UNCHANGED <<storeVars, compVars, concVars, searchVars>>

-----------------------------------------------------------------------------
(* The archive reader (src/src/streaming_parser.py).  A JSON value is a    *)
(* record with its type; a text is a sequence of characters.               *)

JsonNull == [type |-> "null"]
JsonStr(text) == [type |-> "str", text |-> text]
JsonNum(n) == [type |-> "number", value |-> n]

\* content as an object with a list of parts, and content as one string
PartsContent(parts) == [type |-> "dict", parts |-> parts, text |-> <<>>]
StrContent(text) == [type |-> "str", parts |-> <<>>, text |-> text]

\* a message object of the export
RawMessage(id, role, content, create_time) ==
    [type |-> "dict", id |-> id, role |-> role, content |-> content,
     create_time |-> create_time]

\* a conversation object of the export
RawConversation(id, messages) ==
    [type |-> "dict", id |-> id, title |-> "Untitled", messages |-> messages]

\* the values found in the top-level array
RawElements ==
    { JsonStr(<<"x">>),
      RawConversation("c1",
          << RawMessage("m1", "user",
                 PartsContent(<< JsonStr(<<"h","i">>), JsonStr(<<"y","o">>) >>),
                 JsonNum(1)) >>),
      RawConversation("c2",
          << RawMessage("m1", "user", StrContent(<<"h","i">>), JsonNum(1)) >>),
      RawConversation("c3",
          << RawMessage("m1", "user", PartsContent(<< JsonStr(<<" ">>) >>),
                 JsonNum(1)) >>),
      RawConversation("c4", <<>>),
      RawConversation("c5",
          << JsonNull,
             RawMessage("m2", "assistant",
                 PartsContent(<< JsonStr(<<>>), JsonNull, JsonStr(<<"o","k">>) >>),
                 JsonNum(2)) >>),
      RawConversation("c6",
          << RawMessage("m1", "system", PartsContent(<< JsonStr(<<"o","k">>) >>),
                 JsonNull) >>) }

\* every export file of at most n elements
RECURSIVE ExportFiles(_)
ExportFiles(n) ==
    IF n = 0 THEN { <<>> }
    ELSE LET shorter == ExportFiles(n - 1)
         IN  shorter \cup { <<e>> \o f : e \in RawElements, f \in shorter }

\* `if part`: None and the empty string are falsy
Truthy(part) == part.type = "str" /\ part.text # <<>>

\* Message.from_dict: [raised, value].  content.get raises AttributeError
\* when content is not an object, datetime.fromtimestamp raises TypeError
\* on None
MessageFromDict(data) ==
    IF data.content.type # "dict" \/ data.create_time.type # "number"
    THEN [raised |-> TRUE, value |-> <<>>]
    ELSE LET content_parts == SelectSeq(data.content.parts, Truthy)
         IN  [raised |-> FALSE,
              value |-> [id |-> data.id,
                         author_role |-> data.role,
                         content |-> Join([i \in DOMAIN content_parts |->
                                              content_parts[i].text], <<" ">>),
                         create_time |-> data.create_time.value]]

\* Conversation.from_dict: [raised, value]
ConversationFromDict(data) ==
    LET kept == SelectSeq(data.messages, LAMBDA msg : msg.type = "dict")
        messages == [i \in DOMAIN kept |-> MessageFromDict(kept[i])]
    IN  IF \E i \in DOMAIN messages : messages[i].raised
        THEN [raised |-> TRUE, value |-> <<>>]
        ELSE [raised |-> FALSE,
              value |-> [id |-> data.id, title |-> data.title,
                         messages |-> [i \in DOMAIN messages |->
                                          messages[i].value]]]

\* a variant of the loop in which an element that fails to decode ends the
\* stream
NextElementOrStop(pos, n, raised) == IF raised THEN n ELSE pos + 1

\* the loop goes on with the next element, whatever the last one was
NextElement(pos, n, raised) == pos + 1

ParseInit ==
    /\ elements \in ExportFiles(MaxElements)
    /\ ppos = 0
    /\ yielded = <<>>
    /\ irows = <<>> /\ imeta = <<>> /\ ihist = <<>> /\ archive = <<>>
    /\ ipos = 0 /\ batch = <<>> /\ bsize = 0 /\ stats = NoStats /\ run = 0
    /\ snap = <<>> /\ walk = NoWalk

\* one iteration of `for conversation_data in parser` in parse_conversations
ParseElement ==
    /\ ppos < Len(elements)
    /\ LET conversation_data == elements[ppos + 1]
           decoded == IF conversation_data.type = "dict"
                      THEN ConversationFromDict(conversation_data)
                      ELSE [raised |-> FALSE, value |-> <<>>]
       IN  /\ yielded' = IF /\ conversation_data.type = "dict"
                            /\ ~decoded.raised
                            /\ decoded.value.messages # <<>>
                         THEN Append(yielded, decoded.value)
                         ELSE yielded
           /\ ppos' = NextElement(ppos, Len(elements), decoded.raised)
    /\ UNCHANGED elements
    /\ UNCHANGED <<irows, imeta, ihist, archive, ipos, batch, bsize, stats, run,
                   snap, walk>>
    /\ UNCHANGED <<storeVars, compVars, concVars, searchVars>>

-----------------------------------------------------------------------------
(* The traversal of a conversation's mapping table                         *)
(* (src/scripts/import_chatgpt_mapping.py).  Every mapping holds the node  *)
(* 'client-created-root', so the traversal starts there; that node has no  *)
(* message, every other node has one.                                      *)

Root == "client-created-root"
NodeIds == {Root, "n1", "n2"}

\* the lists of at most n different child ids
RECURSIVE ChildLists(_)
ChildLists(n) ==
    IF n = 0 THEN { <<>> }
    ELSE LET shorter == ChildLists(n - 1)
         IN  shorter \cup { Append(l, c) : l \in shorter,
                                           c \in NodeIds }

\* node id -> its 'children'
Mappings ==
    [NodeIds -> { l \in ChildLists(MaxChildren) :
                    \A i, j \in DOMAIN l : (l[i] = l[j]) => (i = j) }]

\* the messages after traverse_node has looked at node_id
Collect(messages, node_id) ==
    IF node_id # Root THEN Append(messages, node_id) ELSE messages

MappingInit ==
    /\ \E mapping \in Mappings :
          walk = [mapping |-> mapping, stack |-> <<>>, messages |-> <<>>,
                  status |-> "start"]
    /\ irows = <<>> /\ imeta = <<>> /\ ihist = <<>> /\ archive = <<>>
    /\ ipos = 0 /\ batch = <<>> /\ bsize = 0 /\ stats = NoStats /\ run = 0
    /\ snap = <<>>
    /\ elements = <<>> /\ ppos = 0 /\ yielded = <<>>

\* traverse_node('client-created-root')
TraverseRoot ==
    /\ walk.status = "start"
    /\ walk' = [walk EXCEPT !.status = "running",
                            !.stack = << [node |-> Root, next |-> 1] >>,
                            !.messages = Collect(@, Root)]
    /\ UNCHANGED <<irows, imeta, ihist, archive, ipos, batch, bsize, stats, run,
                   snap, elements, ppos, yielded>>
    /\ UNCHANGED <<storeVars, compVars, concVars, searchVars>>

\* `for child_id in node['children']: traverse_node(child_id)` in the
\* innermost frame: the call of the next child, which raises RecursionError
\* when the frames are used up
TraverseChild ==
    /\ walk.status = "running"
    /\ LET top == walk.stack[Len(walk.stack)]
           children == walk.mapping[top.node]
       IN  /\ top.next <= Len(children)
           /\ IF Len(walk.stack) >= MaxDepth
              THEN walk' = [walk EXCEPT !.status = "raised", !.stack = <<>>]
              ELSE walk' = [walk EXCEPT
                      !.stack = Append(
                          [@ EXCEPT ![Len(@)].next = top.next + 1],
                          [node |-> children[top.next], next |-> 1]),
                      !.messages = Collect(@, children[top.next])]
    /\ UNCHANGED <<irows, imeta, ihist, archive, ipos, batch, bsize, stats, run,
                   snap, elements, ppos, yielded>>
    /\ UNCHANGED <<storeVars, compVars, concVars, searchVars>>

\* the innermost traverse_node call returns; with the last one
\* extract_messages_from_mapping returns messages
TraverseReturn ==
    /\ walk.status = "running"
    /\ LET top == walk.stack[Len(walk.stack)]
       IN  /\ top.next > Len(walk.mapping[top.node])
           /\ walk' = [walk EXCEPT
                  !.stack = SubSeq(@, 1, Len(@) - 1),
                  !.status = IF Len(walk.stack) = 1 THEN "returned" ELSE @]
    /\ UNCHANGED <<irows, imeta, ihist, archive, ipos, batch, bsize, stats, run,
                   snap, elements, ppos, yielded>>
    /\ UNCHANGED <<storeVars, compVars, concVars, searchVars>>

-----------------------------------------------------------------------------
(* The secure search engine (src/src/search_secure.py): one search call    *)
(* with its cache lookup, store queries, cache store and audit write.      *)

\* str(n) for n >= 0
RECURSIVE Digits(_)
Digits(n) ==
    IF n < 10 THEN << DigitChars[n + 1] >>
    ELSE Digits(n \div 10) \o << DigitChars[(n % 10) + 1] >>

Min(a, b) == IF a < b THEN a ELSE b
Max(a, b) == IF a < b THEN b ELSE a

\* limit = min(max(1, limit), SearchConstants.MAX_RESULTS_PER_PAGE)
ClampLimit(limit) == Min(Max(1, limit), MAX_RESULTS_PER_PAGE)

\* offset = max(0, offset)
ClampOffset(offset) == Max(0, offset)

\* hashlib.sha256(text).hexdigest(), taken as collision free
Sha256(text) == <<"sha256", text>>

\* _get_cache_key: "search:v1:" + sha256(f"{query}:{limit}:{offset}")
CacheKey(query, limit, offset) ==
    <<"search:v1:",
      Sha256(query \o <<":">> \o Digits(limit) \o <<":">> \o Digits(offset))>>

\* _hash_query: the first 16 hex digits of sha256(query), taken as collision free
HashQuery(query) == <<"sha256[:16]", query>>

\* json.dumps / json.loads of a response: a dict of strings, numbers, booleans
\* and lists of such dicts comes back as it went in
JsonDumps(value) == [json |-> value]
JsonLoads(payload) == payload.json

\* s.replace(pat, rep), scanning from position i
RECURSIVE ReplaceFrom(_, _, _, _)
ReplaceFrom(s, pat, rep, i) ==
    IF i > Len(s) THEN <<>>
    ELSE IF i + Len(pat) - 1 <= Len(s) /\ SubSeq(s, i, i + Len(pat) - 1) = pat
    THEN rep \o ReplaceFrom(s, pat, rep, i + Len(pat))
    ELSE <<s[i]>> \o ReplaceFrom(s, pat, rep, i + 1)

\* str.replace(pat, rep) for a non-empty pat
Replace(s, pat, rep) == ReplaceFrom(s, pat, rep, 1)

\* html.escape(s) with quote=True
HtmlEscape(s) ==
    Flatten([i \in DOMAIN s |->
        CASE s[i] = "&"  -> <<"&","a","m","p",";">>
          [] s[i] = "<"  -> <<"&","l","t",";">>
          [] s[i] = ">"  -> <<"&","g","t",";">>
          [] s[i] = "\"" -> <<"&","q","u","o","t",";">>
          [] s[i] = "'"  -> <<"&","#","x","2","7",";">>
          [] OTHER       -> <<s[i]>>])

MarkOpen  == <<"<","m","a","r","k",">">>
MarkClose == <<"<","/","m","a","r","k",">">>

\* a variant of _sanitize_snippet that returns the snippet as the store made it
SnippetAsStored(snippet) == snippet

\* _sanitize_snippet
SanitizeSnippet(snippet) ==
    Replace(Replace(HtmlEscape(snippet), HtmlEscape(MarkOpen), MarkOpen),
            HtmlEscape(MarkClose), MarkClose)

\* the snippet() the store computes for the row of rank i: highlighted text,
\* and message content that holds markup of its own
RawSnippet(i) ==
    IF i = 1 THEN MarkOpen \o <<"a">> \o MarkClose
    ELSE IF i = 2
    THEN <<"<","s","c","r","i","p","t",">">> \o HtmlEscape(MarkOpen)
         \o MarkOpen \o <<"a">> \o MarkClose \o <<"<">>
    ELSE <<"a", "&", "'">>

\* db.search_conversations(processed_query, limit, offset) on an index that
\* matches n rows: the rows of rank offset+1 .. offset+limit
SearchConversations(n, limit, offset) ==
    [k \in 1..Max(0, Min(limit, n - offset)) |->
        [rank |-> offset + k, snippet |-> RawSnippet(offset + k)]]

\* the loop `for result in results` that sanitizes the snippets
SanitizeResults(results) ==
    [k \in DOMAIN results |->
        [results[k] EXCEPT !.snippet = SanitizeSnippet(@)]]

\* a variant of the response dict whose has_more compares the page size, not
\* the number of results returned
ResponseByLimit(query, processed_query, results, total_count, limit, offset) ==
    [query |-> query,
     processed_query |-> processed_query,
     results |-> results,
     count |-> Len(results),
     total |-> total_count,
     limit |-> limit,
     offset |-> offset,
     has_more |-> (offset + limit) < total_count,
     cached |-> FALSE]

\* the response dict built on a cache miss
SuccessResponse(query, processed_query, results, total_count, limit, offset) ==
    [query |-> query,
     processed_query |-> processed_query,
     results |-> results,
     count |-> Len(results),
     total |-> total_count,
     limit |-> limit,
     offset |-> offset,
     has_more |-> (offset + Len(results)) < total_count,
     cached |-> FALSE]

\* the dict returned by the `except Exception` branch of search
ErrorResponse(query) ==
    [query |-> query,
     error |-> "Search failed. Please try again.",
     results |-> <<>>,
     count |-> 0,
     total |-> 0,
     cached |-> FALSE]

\* a variant of _get_cached_result that returns the entry as it was stored
GetCachedResultUnmarked(on, store, cache_key, down) ==
    IF ~on \/ down \/ cache_key \notin DOMAIN store
    THEN <<>>
    ELSE << JsonLoads(store[cache_key].value) >>

\* _get_cached_result: <<>> for None, else <<result>>; `down` is the cache
\* backend raising RedisError on get
GetCachedResult(on, store, cache_key, down) ==
    IF ~on THEN <<>>
    ELSE IF down THEN <<>>
    ELSE IF cache_key \in DOMAIN store
    THEN << [JsonLoads(store[cache_key].value) EXCEPT !.cached = TRUE] >>
    ELSE <<>>

\* a variant of _cache_result that never stores
CacheResultSkipped(on, store, cache_key, result, down) ==
    [raised |-> FALSE, store |-> store]

\* _cache_result: [raised, store].  When setex raises RedisError, matching it
\* against `except (RedisError, json.JSONEncodeError)` evaluates
\* json.JSONEncodeError, an attribute the json module does not have: the
\* handler itself raises AttributeError, which leaves _cache_result
CacheResult(on, store, cache_key, result, down) ==
    IF ~on THEN [raised |-> FALSE, store |-> store]
    ELSE IF "error" \in DOMAIN result THEN [raised |-> FALSE, store |-> store]
    ELSE IF down THEN [raised |-> TRUE, store |-> store]
    ELSE [raised |-> FALSE,
          store |-> [k \in DOMAIN store \cup {cache_key} |->
                        IF k = cache_key
                        THEN [ttl |-> CACHE_TTL_SECONDS,
                              value |-> JsonDumps(result)]
                        ELSE store[k]]]

\* _log_search_audit: the call of db.log_search_audit it makes; `down` is that
\* call raising, which _log_search_audit logs and swallows
LogSearchAudit(query, user_id, from_cache, error, down) ==
    [query_hash |-> HashQuery(query),
     user_id |-> user_id,
     query_length |-> Len(query),
     from_cache |-> from_cache,
     error |-> error,
     written |-> ~down]

-----------------------------------------------------------------------------
(* Search calls, one at a time.  The index is abstracted to the number of  *)
(* rows it matches for the compiled query; rows are only ever added.       *)

SearchQueries ==
    { <<>>, <<" ">>, <<"NUL">>, Rep("x", MAX_QUERY_LENGTH + 1),
      <<"a", " ", "b">>, <<" ", "a", " ", "b", "NUL">> }

\* _validate_query on each of the queries searched for
Validated == [q \in SearchQueries |-> ValidateQuery(q)]

\* (limit, offset, user_id) of the calls made
SearchArgs ==
    { [limit |-> 0,   offset |-> -1, user_id |-> "null"],
      [limit |-> 1,   offset |-> 0,  user_id |-> "u1"],
      [limit |-> 200, offset |-> 1,  user_id |-> "u1"] }

\* what can fail inside one search call: the cache backend on get and on
\* setex, the two store queries, and the audit write
FaultKinds == {"cache_get", "search", "count", "cache_set", "audit"}

NoResponse == [kind |-> "none"]
NoSearchCall ==
    [query |-> <<>>, limit |-> 0, offset |-> 0, user_id |-> "null",
     fault |-> "none", path |-> "none", before |-> 0, later |-> 0,
     db_calls |-> <<>>]

SearchIdle ==
    /\ cacheOn = FALSE /\ hits = 0 /\ cache = <<>> /\ scall = NoSearchCall
    /\ resp = NoResponse /\ audits = <<>>

\* SecureSearchEngine.__init__ over an index, with or without a cache backend
SearchInit ==
    /\ cacheOn \in BOOLEAN
    /\ hits \in 0..MaxHits
    /\ cache = <<>>
    /\ scall = NoSearchCall
    /\ resp = NoResponse
    /\ audits = <<>>

\* SecureSearchEngine.search.  `fault` names the collaborator that fails in
\* this call ("none": nothing fails); a collaborator the call does not reach
\* cannot fail in it.
Search(query_arg, limit_arg, offset_arg, user_id, fault) ==
    LET v == Validated[query_arg]
        query == v.text
        limit == ClampLimit(limit_arg)
        offset == ClampOffset(offset_arg)
        cache_key == CacheKey(query, limit, offset)
        cached_result ==
            GetCachedResult(cacheOn, cache, cache_key, fault = "cache_get")
        processed_query == ProcessSecureQuery(query)
        args == [query |-> query_arg, limit |-> limit_arg,
                 offset |-> offset_arg, user_id |-> user_id,
                 fault |-> fault, path |-> "none",
                 before |-> hits, later |-> hits, db_calls |-> <<>>]
        Failed ==
            /\ audits' = << LogSearchAudit(query, user_id, FALSE, "error",
                                           fault = "audit") >>
            /\ resp' = [kind |-> "returned", body |-> ErrorResponse(query)]
            /\ cache' = cache
    IN  /\ fault \in {"cache_get", "cache_set"} => cacheOn
        /\ UNCHANGED cacheOn
        /\ IF ~v.ok
           THEN \* _validate_query raises, outside the try block
                /\ fault = "none"
                /\ resp' = [kind |-> "raised", exc |-> "ValueError",
                            message |-> v.err]
                /\ audits' = <<>>
                /\ scall' = [args EXCEPT !.path = "invalid"]
                /\ UNCHANGED <<cache, hits>>
           ELSE IF cached_result # <<>>
           THEN \* cache hit
                /\ fault \in {"none", "audit"}
                /\ audits' = << LogSearchAudit(query, user_id, TRUE, "null",
                                               fault = "audit") >>
                /\ resp' = [kind |-> "returned", body |-> cached_result[1]]
                /\ scall' = [args EXCEPT !.path = "hit"]
                /\ UNCHANGED <<cache, hits>>
           ELSE IF fault = "search"
           THEN \* db.search_conversations raises
                /\ Failed
                /\ scall' = [args EXCEPT !.path = "miss",
                                         !.db_calls = <<"search_conversations">>]
                /\ UNCHANGED hits
           ELSE \* `later`: the rows the index matches when the count query
                \* runs; an ingest may have committed since the search query
                \E later \in hits..MaxHits :
                \E results \in { SanitizeResults(
                                    SearchConversations(hits, limit, offset)) } :
                \E response \in { SuccessResponse(query, processed_query, results,
                                      IF fault = "count" THEN 0 ELSE later,
                                      limit, offset) } :
                \E stored \in { CacheResult(cacheOn, cache, cache_key, response,
                                             fault = "cache_set") } :
                    /\ hits' = later
                    /\ scall' = [args EXCEPT !.path = "miss", !.later = later,
                                             !.db_calls = <<"search_conversations",
                                                            "count_search_results">>]
                    /\ IF stored.raised
                       THEN Failed
                       ELSE /\ cache' = stored.store
                            /\ audits' = << LogSearchAudit(query, user_id, FALSE,
                                              "null", fault = "audit") >>
                            /\ resp' = [kind |-> "returned", body |-> response]

SearchCall ==
    /\ \E query \in SearchQueries, a \in SearchArgs,
          fault \in {"none"} \cup FaultKinds :
            Search(query, a.limit, a.offset, a.user_id, fault)
    /\ UNCHANGED <<storeVars, compVars, concVars, importVars>>

\* an ingest commits a row that the compiled query matches
IndexGrows ==
    /\ hits < MaxHits
    /\ hits' = hits + 1
    /\ UNCHANGED <<cacheOn, cache, scall, resp, audits>>
    /\ UNCHANGED <<storeVars, compVars, concVars, importVars>>

\* an entry written with setex reaches its TTL (CACHE_TTL_SECONDS)
CacheExpire ==
    /\ \E key \in DOMAIN cache :
        cache' = [k \in DOMAIN cache \ {key} |-> cache[k]]
    /\ UNCHANGED <<cacheOn, hits, scall, resp, audits>>
    /\ UNCHANGED <<storeVars, compVars, concVars, importVars>>

-----------------------------------------------------------------------------
(* The specifications.                                                     *)

\* sequential calls on the storage engine
Init == StoreInit /\ CompIdle /\ ConcIdle /\ ImportIdle /\ SearchIdle
Next == Insert
Spec == Init /\ [][Next]_vars

\* callers of get_connection while the pool is closed
InitClose == PoolInit /\ StoreInit /\ CompIdle /\ ImportIdle /\ SearchIdle
NextClose ==
    \/ CloseAll
    \/ \E t \in PoolCallers :
        \/ CheckClosed(t)
        \/ GetConnection(t)
        \/ GetTimeout(t)
        \/ BodyReturns(t)
        \/ BodyRaises(t)
        \/ BodyEndsClosed(t)
SpecClose == InitClose /\ [][NextClose]_vars

\* sequential record_import calls on the storage engine
InitHistory == StoreInit /\ CompIdle /\ ConcIdle /\ ImportIdle /\ SearchIdle
NextHistory == RecordImportCall
SpecHistory == InitHistory /\ [][NextHistory]_vars

\* the query compiler on one query
InitCompile == CompInit /\ StoreIdle /\ ConcIdle /\ ImportIdle /\ SearchIdle
NextCompile == Validate \/ Compile
SpecCompile == InitCompile /\ [][NextCompile]_vars

\* concurrent callers of insert_conversation
InitConc == ConcInit /\ StoreInit /\ CompIdle /\ ImportIdle /\ SearchIdle
NextConc ==
    \E t \in Callers :
        \/ Acquire(t)
        \/ PoolTimeout(t)
        \/ SelectExisting(t)
        \/ InsertRows(t)
        \/ BusyTimeout(t)
        \/ UpsertMetadata(t)
        \/ UpsertRaises(t)
        \/ Commit(t)
SpecConc == InitConc /\ [][NextConc]_vars

\* callers of get_connection on one pool
InitPool == PoolInit /\ StoreInit /\ CompIdle /\ ImportIdle /\ SearchIdle
NextPool ==
    \E t \in PoolCallers :
        \/ Acquire(t)
        \/ PoolTimeout(t)
        \/ BodyReturns(t)
        \/ BodyRaises(t)
        \/ Retry(t)
SpecPool == InitPool /\ [][NextPool]_vars

\* the same callers under the scheduling the threads get: a caller blocked in
\* Queue.get is woken when a connection is in the queue, and the body of
\* every with block comes to its end
SpecPoolFair ==
    /\ SpecPool
    /\ \A t \in PoolCallers :
          /\ WF_vars(Acquire(t))
          /\ WF_vars(BodyReturns(t) \/ BodyRaises(t))

\* the archive importer run MaxRuns times
InitImport == ImportInit /\ StoreIdle /\ CompIdle /\ ConcIdle /\ SearchIdle
NextImport == ReadConversation \/ FinishImport
SpecImport == InitImport /\ [][NextImport]_vars

\* the archive reader on one export file
InitParse == ParseInit /\ StoreIdle /\ CompIdle /\ ConcIdle /\ SearchIdle
NextParse == ParseElement
SpecParse == InitParse /\ [][NextParse]_vars

\* the traversal of one mapping table
InitMapping == MappingInit /\ StoreIdle /\ CompIdle /\ ConcIdle /\ SearchIdle
NextMapping == TraverseRoot \/ TraverseChild \/ TraverseReturn
SpecMapping == InitMapping /\ [][NextMapping]_vars

\* the secure search engine
InitSearch == SearchInit /\ StoreIdle /\ CompIdle /\ ConcIdle /\ ImportIdle
NextSearch == SearchCall \/ IndexGrows \/ CacheExpire
SpecSearch == InitSearch /\ [][NextSearch]_vars

-----------------------------------------------------------------------------
(* Properties of the message store, one caller (Spec).                     *)

\* C1: a call of insert_conversation whose checksum equals the one stored for
\* its conversation id returns 0 and leaves the rows and the metadata as they
\* were
ReingestSameChecksumIsNoOp ==
    [][ ( /\ call'.op = "insert"
          /\ call'.id \in DOMAIN meta
          /\ meta[call'.id].checksum = call'.checksum )
        => ( call'.ret = 0 /\ rows' = rows /\ meta' = meta ) ]_vars

\* a re-ingest was skipped: the call returned 0 for a conversation that is
\* stored with messages under the checksum of the call
ReingestSkipped ==
    /\ call.op = "insert"
    /\ call.ret = 0
    /\ call.id \in DOMAIN meta
    /\ meta[call.id].checksum = call.checksum
    /\ meta[call.id].message_count > 0
    /\ RowCount(rows, call.id) > 0

\* C2: after any sequence of insert_conversation calls, the message_count of
\* every metadata row is the number of message rows stored under its id
MessageCountMatchesRows ==
    \A id \in DOMAIN meta : meta[id].message_count = RowCount(rows, id)

\* the (timestamp, sender, content) of a stored row
RowMessage(r) ==
    [timestamp |-> r.timestamp, sender |-> r.sender, content |-> r.content]

\* the messages get_conversation returns for a stored conversation
Returned(id) == GetConversation(rows, meta, id)[1].messages

\* C19: get_conversation on a stored conversation returns the stored
\* messages of that id, each one as often as it is stored and with the sender
\* and content it was submitted with, in ascending order of their timestamps
\* whatever the order they were inserted in, and nothing else
ConversationReadInTimestampOrder ==
    /\ (call.op = "insert") => (call.id \in DOMAIN meta)
    /\ \A id \in DOMAIN meta :
        /\ GetConversation(rows, meta, id) # <<>>
        /\ \E got \in { Returned(id) } :
            /\ Len(got) = RowCount(rows, id)
            /\ \A i \in DOMAIN rows :
                  LET r == RowMessage(rows[i])
                  IN  Cardinality({ j \in DOMAIN got : got[j] = r })
                      = Cardinality({ j \in DOMAIN rows :
                                        /\ rows[j].conversation_id = id
                                        /\ RowMessage(rows[j]) = r })
            /\ \A j \in DOMAIN got :
                  \E m \in Messages :
                      got[j] = [timestamp |-> IsoFormat(m.ts),
                                sender |-> m.sender,
                                content |-> m.content]
            /\ \A i, j \in DOMAIN got :
                  \A m, n \in Messages :
                      ( /\ i < j
                        /\ got[i].timestamp = IsoFormat(m.ts)
                        /\ got[j].timestamp = IsoFormat(n.ts) )
                      => m.ts <= n.ts

\* a conversation inserted latest message first, next to another
\* conversation, and read back earliest message first
ReadBackReordered ==
    /\ "c1" \in DOMAIN meta
    /\ \E i, j \in DOMAIN rows :
          /\ i < j
          /\ rows[i].conversation_id = "c1" /\ rows[j].conversation_id = "c1"
          /\ rows[i].timestamp = IsoFormat(Hi.ts)
          /\ rows[j].timestamp = IsoFormat(Hello.ts)
    /\ \E i \in DOMAIN rows : rows[i].conversation_id = "c2"
    /\ Len(Returned("c1")) = 2
    /\ Returned("c1")[1].content = Hello.content
    /\ Returned("c1")[2].content = Hi.content

\* C20: the table import_history never holds two rows with one file
\* checksum; a record_import call whose checksum is already recorded leaves
\* the table as it was, and a call with a new checksum adds the one row of
\* that checksum
ImportRecordedOncePerChecksum ==
    /\ [](\A i, j \in DOMAIN import_history :
            (import_history[i].file_checksum = import_history[j].file_checksum)
            => (i = j))
    /\ [][ (call'.op = "record_import")
            => IF \E i \in DOMAIN import_history :
                     import_history[i].file_checksum = call'.checksum
               THEN import_history' = import_history /\ call'.ret = 0
               ELSE /\ Len(import_history') = Len(import_history) + 1
                    /\ SubSeq(import_history', 1, Len(import_history))
                       = import_history
                    /\ import_history'[Len(import_history')].file_checksum
                       = call'.checksum
       ]_vars

\* a file already recorded is recorded again from another path and with
\* another count, after the import of a second file, and is skipped
RepeatedImportSkipped ==
    /\ call.op = "record_import"
    /\ call.ret = 0
    /\ Len(import_history) = 2
    /\ import_history[1].file_checksum = call.checksum
    /\ import_history[1].file_path # call.id

\* C25: the metadata row of every stored conversation has created_at, the
\* earliest timestamp of the messages submitted, not after updated_at, the
\* latest one
CreatedNotAfterUpdated ==
    \A id \in DOMAIN meta :
        TextLeq(meta[id].created_at.iso, meta[id].updated_at.iso)

-----------------------------------------------------------------------------
(* Properties of the archive importer (SpecImport).                        *)

\* C3: a second run of the importer over the same archive adds no rows: each
\* conversation has the rows it had after the first run
SecondImportAddsNoRows ==
    run >= 2 => \A id \in ConvIds : RowCount(irows, id) = snap[id]

-----------------------------------------------------------------------------
(* Properties of the search engine (SpecSearch).  scall holds the last     *)
(* call of search, resp what it gave back and audits the audit writes it   *)
(* made.                                                                   *)

Called == resp.kind # "none"

IsSuccess == resp.kind = "returned" /\ "error" \notin DOMAIN resp.body

\* C4: every non-error response of search, built on a cache miss or loaded
\* from a cache entry this layer stored, has count = len(results) and
\* has_more = (offset + count < total), with limit and offset the clamped
\* values of the call
ResponseCountsAgree ==
    IsSuccess =>
        LET body == resp.body
        IN  /\ body.count = Len(body.results)
            /\ body.has_more = ((body.offset + body.count) < body.total)
            /\ body.limit = ClampLimit(scall.limit)
            /\ body.offset = ClampOffset(scall.offset)

\* a response loaded from the cache that reports more rows to come
CachedPageWithMore ==
    /\ IsSuccess
    /\ scall.path = "hit"
    /\ resp.body.cached
    /\ resp.body.count > 0
    /\ resp.body.has_more

\* C6: a call of search whose query fails validation returns a structured
\* error result (an error field, no results, count 0, total 0); no exception
\* reaches the caller
InvalidQueryGivesErrorResult ==
    (Called /\ ~Validated[scall.query].ok) =>
        /\ resp.kind = "returned"
        /\ "error" \in DOMAIN resp.body
        /\ resp.body.results = <<>>
        /\ resp.body.count = 0
        /\ resp.body.total = 0

\* C7: every call of search makes exactly one audit write, on every path, and
\* the entry carries the user_id of the call and the hash of the validated
\* query
OneAuditWritePerCall ==
    Called =>
        /\ Len(audits) = 1
        /\ audits[1].user_id = scall.user_id
        /\ audits[1].query_hash = HashQuery(Validated[scall.query].text)

\* the response of the last call had the cache been disabled and the audit
\* write succeeded
Uncached ==
    LET query == Validated[scall.query].text
        limit == ClampLimit(scall.limit)
        offset == ClampOffset(scall.offset)
    IN  SuccessResponse(query, ProcessSecureQuery(query),
            SanitizeResults(SearchConversations(scall.before, limit, offset)),
            scall.later, limit, offset)

\* C8: when the cache backend raises on lookup or on store, or the audit
\* write raises, search returns a non-error response, and on a cache miss the
\* results, count, total and has_more it returns without cache
CacheAndAuditFailuresAreHarmless ==
    (Called /\ scall.fault \in {"cache_get", "cache_set", "audit"}) =>
        /\ IsSuccess
        /\ scall.path = "miss" =>
              /\ resp.body.results = Uncached.results
              /\ resp.body.count = Uncached.count
              /\ resp.body.total = Uncached.total
              /\ resp.body.has_more = Uncached.has_more

\* the cache key of the last call
CallKey ==
    CacheKey(Validated[scall.query].text, ClampLimit(scall.limit),
             ClampOffset(scall.offset))

\* C17: every cache entry is a non-error response, stored with the TTL of
\* 300 seconds under the key "search:v1:" + hash of its (validated query,
\* clamped limit, clamped offset); and a search that misses the cache leaves
\* its response in the cache, under the key of the call, exactly when the
\* response is not an error
CacheHoldsSuccessfulResponses ==
    /\ [](\A k \in DOMAIN cache :
            LET body == JsonLoads(cache[k].value)
            IN  /\ "error" \notin DOMAIN body
                /\ cache[k].ttl = 300
                /\ k[1] = "search:v1:"
                /\ k = CacheKey(body.query, body.limit, body.offset)
                /\ body.query = Strip(RemoveChar(body.query, "NUL"))
                /\ body.limit = ClampLimit(body.limit)
                /\ body.offset = ClampOffset(body.offset))
    /\ [][ ( /\ <<scall, resp, audits>>' # <<scall, resp, audits>>
              /\ scall'.path = "miss"
              /\ cacheOn' )
            => ( (resp'.kind = "returned" /\ "error" \notin DOMAIN resp'.body)
                 <=> ( /\ CallKey' \in DOMAIN cache'
                       /\ cache'[CallKey'] = [ttl |-> 300,
                                              value |-> JsonDumps(resp'.body)] ) )
       ]_vars

\* the response of a search that missed the cache is in the cache
MissStored ==
    /\ cacheOn
    /\ scall.path = "miss"
    /\ IsSuccess
    /\ resp.body.count > 0
    /\ CallKey \in DOMAIN cache
    /\ JsonLoads(cache[CallKey].value) = resp.body

\* C18: a search that hits the cache returns the stored entry with cached
\* set to true, makes no search or count query on the store, leaves the cache
\* as it was, and makes one audit call, with from_cache true
CacheHitServedFromCache ==
    [][ ( /\ <<scall, resp, audits>>' # <<scall, resp, audits>>
          /\ scall'.path = "hit" )
        => ( /\ CallKey' \in DOMAIN cache
             /\ resp' = [kind |-> "returned",
                         body |-> [JsonLoads(cache[CallKey'].value)
                                      EXCEPT !.cached = TRUE]]
             /\ resp'.body.cached = TRUE
             /\ scall'.db_calls = <<>>
             /\ hits' = hits
             /\ cache' = cache
             /\ Len(audits') = 1
             /\ audits'[1].from_cache = TRUE
             /\ audits'[1].user_id = scall'.user_id
             /\ audits'[1].query_hash = HashQuery(Validated[scall'.query].text) )
      ]_vars

\* a cache hit that answers with the stored entry although the index has
\* since grown
StaleHit ==
    /\ scall.path = "hit"
    /\ IsSuccess
    /\ resp.body.cached
    /\ resp.body.total < hits

\* text has pat at position i
HasAt(text, pat, i) ==
    i + Len(pat) - 1 <= Len(text) /\ SubSeq(text, i, i + Len(pat) - 1) = pat

\* C24: in every snippet of a response, every "<" starts "<mark>" or
\* "</mark>", no "<script>" is left, and the highlighted term the store
\* marked is still between its markers
SnippetsCarryOnlyMarkers ==
    IsSuccess =>
        \A k \in DOMAIN resp.body.results :
            LET snippet == resp.body.results[k].snippet
                raw == RawSnippet(resp.body.results[k].rank)
            IN  /\ \A i \in DOMAIN snippet :
                      (snippet[i] = "<")
                      => (HasAt(snippet, MarkOpen, i) \/ HasAt(snippet, MarkClose, i))
                /\ ~Contains(snippet, <<"<","s","c","r","i","p","t",">">>)
                /\ Contains(raw, MarkOpen \o <<"a">> \o MarkClose)
                   => Contains(snippet, MarkOpen \o <<"a">> \o MarkClose)

\* a response with a snippet of content that held a script tag next to the
\* highlighted term
ScriptTagEscaped ==
    /\ IsSuccess
    /\ \E k \in DOMAIN resp.body.results :
          /\ Contains(RawSnippet(resp.body.results[k].rank),
                      <<"<","s","c","r","i","p","t",">">>)
          /\ Contains(resp.body.results[k].snippet,
                      HtmlEscape(<<"<","s","c","r","i","p","t",">">>))
          /\ Contains(resp.body.results[k].snippet, MarkOpen)

\* C26: a search answered from the cache returns the results, count, total
\* and has_more that the engine without a cache returns for the same call on
\* the index as it is now
CachedResponseMatchesUncached ==
    (scall.path = "hit") =>
        LET limit == ClampLimit(scall.limit)
            offset == ClampOffset(scall.offset)
            fresh == SuccessResponse(
                        Validated[scall.query].text,
                        ProcessSecureQuery(Validated[scall.query].text),
                        SanitizeResults(SearchConversations(hits, limit, offset)),
                        hits, limit, offset)
        IN  /\ resp.body.results = fresh.results
            /\ resp.body.count = fresh.count
            /\ resp.body.total = fresh.total
            /\ resp.body.has_more = fresh.has_more

\* C27: the total of a non-error response is at least the offset plus the
\* number of rows the response returns
TotalCoversReturnedRows ==
    IsSuccess => resp.body.total >= resp.body.offset + resp.body.count

-----------------------------------------------------------------------------
(* Properties of the query compiler (SpecCompile).                         *)

\* the reserved grammar characters other than the double quote
Metachars == { FTS5_SPECIAL_CHARS[k] : k \in DOMAIN FTS5_SPECIAL_CHARS } \ {"\""}

\* C5: in the compiled form of every query that validation accepts, each
\* apostrophe, parenthesis, asterisk, colon and caret is immediately preceded
\* by a backslash, whichever of the three branches compiled it
MetacharsAreEscaped ==
    cstage = "compiled" =>
        \A i \in DOMAIN cout :
            cout[i] \in Metachars => (i > 1 /\ cout[i - 1] = "\\")

\* a phrase query compiled with metacharacters both inside and outside its
\* quoted part
PhraseWithMetacharsCompiled ==
    /\ cstage = "compiled"
    /\ \E i \in DOMAIN cvalid :
          /\ cvalid[i] \in Metachars
          /\ \A m \in 1..i : cvalid[m] # "\""
    /\ \E i, j, k \in DOMAIN cvalid :
          /\ i < j /\ j < k
          /\ cvalid[i] = "\"" /\ cvalid[j] \in Metachars /\ cvalid[k] = "\""
          /\ \A m \in 1..(i - 1) : cvalid[m] # "\""

\* C15: for every accepted query that holds AND, OR, NOT or NEAR as a whole
\* word, in any letter case and at any position, the compiled query holds
\* that operator upper-cased and unescaped, and every metacharacter of the
\* other tokens is escaped
OperatorsPreserved ==
    cstage = "compiled" =>
        /\ \A i \in DOMAIN cvalid :
              LET n == OperatorAt(cvalid, i)
              IN  n > 0 =>
                    \E j \in DOMAIN cout :
                        /\ OperatorAt(cout, j) = n
                        /\ SubSeq(cout, j, j + n - 1)
                             = Upper(SubSeq(cvalid, i, i + n - 1))
                        /\ (j = 1 \/ cout[j - 1] # "\\")
        /\ \A i \in DOMAIN cout :
              cout[i] \in Metachars => (i > 1 /\ cout[i - 1] = "\\")

\* what is left of the raw query without its null bytes and without the
\* whitespace around it
Remaining == Strip(RemoveChar(cq, "NUL"))

\* C16: validation accepts a query whose remaining text has 1 to 500
\* characters, whatever null bytes and whitespace surround it, and hands on
\* that text; it rejects 501 characters and more with the 'too long' error,
\* and an empty or whitespace-only query with the 'empty'/'too short' error
ValidationBoundaries ==
    cstage # "raw" =>
        /\ (Len(Remaining) >= 1 /\ Len(Remaining) <= MAX_QUERY_LENGTH)
              => (cstage \in {"valid", "compiled"} /\ cvalid = Remaining)
        /\ Len(Remaining) > MAX_QUERY_LENGTH
              => (cstage = "rejected" /\ cerr = "too long")
        /\ Len(Remaining) = 0
              => (cstage = "rejected" /\ cerr \in {"cannot be empty", "too short"})

\* a query of more than 500 characters was accepted: its remaining text has
\* exactly 500
PaddedMaximumAccepted ==
    /\ cstage = "valid"
    /\ Len(cvalid) = MAX_QUERY_LENGTH
    /\ Len(cq) > MAX_QUERY_LENGTH

\* the positions of the double quotes of a text
QuotesOf(text) == { i \in DOMAIN text : text[i] = "\"" }

\* C29: the compiled query has an even number of double quotes, and they
\* pair up, in order, as the delimiters of phrases without a quote inside:
\* one phrase for every quoted segment of a query with quotes (the segment
\* after an unbalanced quote included), one around a plain query of several
\* words, none otherwise
CompiledQuotesBalanced ==
    (cstage = "compiled") =>
        LET n == Cardinality(QuotesOf(cout))
            parts == SplitOn(cvalid, "\"")
            \* the k-th double quote of the compiled query
            At(k) == CHOOSE i \in QuotesOf(cout) :
                        Cardinality({ j \in QuotesOf(cout) : j <= i }) = k
        IN  /\ n % 2 = 0
            /\ (QuotesOf(cvalid) # {}) =>
                  /\ n = 2 * (Len(parts) \div 2)
                  /\ \A k \in 1..(n \div 2) :
                        SubSeq(cout, At(2 * k - 1) + 1, At(2 * k) - 1)
                        = EscapeFts5Chars(parts[2 * k])
            /\ (QuotesOf(cvalid) = {}) =>
                  /\ n \in {0, 2}
                  /\ (n = 2) => (cout[1] = "\"" /\ cout[Len(cout)] = "\"")

\* a query with an unbalanced quote, compiled
UnbalancedQuoteCompiled ==
    /\ cstage = "compiled"
    /\ Cardinality(QuotesOf(cvalid)) % 2 = 1
    /\ Cardinality(QuotesOf(cvalid)) > 1
    /\ Cardinality(QuotesOf(cout)) > Cardinality(QuotesOf(cvalid))

-----------------------------------------------------------------------------
(* Properties of concurrent callers of insert_conversation (SpecConc).     *)

Raised(t) == pc[t] \in {"raised_timeout", "raised_locked", "raised_error"}

\* the caller is alone on its conversation id
OwnId(t) == \A u \in Callers \ {t} : req[u].id # req[t].id

\* C9: when two callers insert the same conversation id with the same
\* messages, the messages are stored once: the rows of the id never exceed
\* the message list, and of two calls that returned one returned 0
SameConversationStoredOnce ==
    \A t, u \in Callers :
        ( /\ t # u
          /\ req[t].id = req[u].id
          /\ \A w \in Callers :
                req[w].id = req[t].id => req[w].messages = req[t].messages )
        => /\ RowCount(rows, req[t].id) <= Len(req[t].messages)
           /\ (pc[t] = "done" /\ pc[u] = "done") =>
                 ret[t] + ret[u] = Len(req[t].messages)

\* C10, as stated: once the calls on distinct conversation ids are over, every
\* one of them has returned and each conversation's message_count is the
\* number of messages submitted for it
DistinctIdCallsAllStore ==
    ( /\ \A t \in Callers : Terminal(t) /\ OwnId(t) )
    => \A t \in Callers :
          /\ pc[t] = "done"
          /\ req[t].id \in DOMAIN meta
          /\ meta[req[t].id].message_count = Len(req[t].messages)

\* C10: calls on distinct conversation ids never block one another for good:
\* while a call is under way some step is possible.  A call that returned has
\* stored its messages, with message_count the number submitted; a call that
\* raised (pool timeout, or busy timeout on the writer lock) stored nothing.
DistinctIdCallsSettle ==
    /\ (\E t \in Callers : ~Terminal(t)) => ENABLED NextConc
    /\ \A t \in Callers :
          OwnId(t) =>
            /\ pc[t] = "done" =>
                  /\ ret[t] = Len(req[t].messages)
                  /\ req[t].id \in DOMAIN meta
                  /\ meta[req[t].id].message_count = Len(req[t].messages)
                  /\ RowCount(rows, req[t].id) = Len(req[t].messages)
            /\ Raised(t) =>
                  /\ req[t].id \notin DOMAIN meta
                  /\ RowCount(rows, req[t].id) = 0

\* all callers, on distinct ids, have returned after waiting for one another:
\* there are more callers than connections
DistinctIdCallsAllReturned ==
    /\ \A t \in Callers : pc[t] = "done" /\ OwnId(t)
    /\ Len(pool) < NumCallers
    /\ \A t \in Callers :
          meta[req[t].id].message_count = Len(req[t].messages)

\* the number of rows the committed calls of the callers in S returned
RECURSIVE RowsReturned(_)
RowsReturned(S) ==
    IF S = {} THEN 0
    ELSE LET t == CHOOSE u \in S : TRUE
         IN  (IF pc[t] = "done" THEN ret[t] ELSE 0) + RowsReturned(S \ {t})

\* C11: a conversation is never partially written: in the store that other
\* connections read, a conversation has message rows exactly when it has its
\* metadata row, the rows are those of the calls that committed, and a call
\* that raised has left nothing of its transaction behind
ConversationWrittenWhole ==
    /\ \A id \in ConvIds : (RowCount(rows, id) > 0) <=> (id \in DOMAIN meta)
    /\ Len(rows) = RowsReturned(Callers)
    /\ \A t \in Callers : Raised(t) => (txn[t] = NoTxn /\ wlock # t)

\* a call raised after it had inserted its message rows, and the store holds
\* the rows of another call only
RolledBackAfterInsert ==
    \E t, u \in Callers :
        /\ pc[t] = "raised_error"
        /\ pc[u] = "done" /\ ret[u] > 0
        /\ req[t].id # req[u].id
        /\ RowCount(rows, req[t].id) = 0
        /\ Len(rows) = ret[u]

-----------------------------------------------------------------------------
(* Properties of the connection pool (SpecPool).                           *)

Holders(c) == { t \in DOMAIN held : held[t] = c }

IdleSlots(c) == { i \in DOMAIN pool : pool[i] = c }

\* C12: in every state of an open pool each connection is either idle in the
\* queue, once, or held by exactly one caller; idle plus held connections are
\* pool_size; and the queue has room whenever a connection is to be put back
PoolConnectionsAccountedFor ==
    /\ \A c \in all_connections :
          Cardinality(Holders(c)) + Cardinality(IdleSlots(c)) = 1
    /\ \A t \in DOMAIN held : held[t] # 0 => held[t] \in all_connections
    /\ Len(pool) + Cardinality({ t \in DOMAIN held : held[t] # 0 })
          = Cardinality(all_connections)
    /\ (\E t \in DOMAIN held : held[t] # 0) => ~QueueFull

\* every connection is held, after one body raised and one call timed out
PoolExhaustedAfterFailures ==
    /\ pool = <<>>
    /\ \E t \in DOMAIN pc : pc[t] = "raised_timeout"
    /\ \E t \in DOMAIN pc : pc[t] = "raised_error"
    /\ \E t \in DOMAIN pc : pc[t] = "select" /\ held[t] # 0

\* C13: a get_connection call fails with TimeoutError only while every
\* connection is checked out, and the failed call leaves the queue and the
\* held connections as they were; a caller waiting on the empty queue can
\* always end with that error; and a caller that calls again finds the call
\* served, not timed out, once a holder has put its connection back
PoolTimeoutIsRetriable ==
    /\ [][ \A t \in DOMAIN pc :
              (pc[t] = "start" /\ pc'[t] = "raised_timeout")
              => /\ pool = <<>>
                 /\ pool' = pool
                 /\ held' = held
                 /\ all_connections' = all_connections ]_vars
    /\ [](\A t \in DOMAIN pc :
              /\ (pc[t] = "start" /\ pool = <<>>) => ENABLED PoolTimeout(t)
              /\ (pc[t] = "start" /\ tries[t] > 0 /\ pool # <<>>)
                 => (ENABLED Acquire(t) /\ ~ENABLED PoolTimeout(t)))

\* a caller whose first call timed out holds a connection after calling again
RetryServed ==
    \E t \in DOMAIN pc :
        /\ tries[t] > 0
        /\ pc[t] = "select"
        /\ held[t] # 0

-----------------------------------------------------------------------------
(* Progress of the callers of the pool (SpecPoolFair).                     *)

AllServed == \A t \in PoolCallers : pc[t] = "done"

NoBodyRaised == \A t \in PoolCallers : pc[t] # "raised_error"

NoTimeout == \A t \in PoolCallers : pc[t] # "raised_timeout"

-----------------------------------------------------------------------------
(* Properties of the archive reader (SpecParse).                           *)

\* what parse_conversations yields for a file holding the element e alone
YieldedAlone(e) ==
    IF e.type # "dict" THEN <<>>
    ELSE LET c == ConversationFromDict(e)
         IN  IF c.raised \/ c.value.messages = <<>> THEN <<>> ELSE << c.value >>

\* C21: what has been yielded is, in file order, what each element consumed
\* so far yields on its own: an element that is not an object or that fails to
\* decode adds nothing and takes nothing away, and the loop goes on to the
\* next element until the array is exhausted
BadElementsSkipped ==
    /\ yielded = Flatten([i \in 1..ppos |-> YieldedAlone(elements[i])])
    /\ ppos <= Len(elements)
    /\ (ppos < Len(elements)) => ENABLED ParseElement

\* a well-formed conversation yielded after a non-object element and an
\* element whose decoding raised
YieldedAfterBadElements ==
    /\ Len(elements) = 3 /\ ppos = 3
    /\ elements[1].type # "dict"
    /\ elements[2].type = "dict" /\ ConversationFromDict(elements[2]).raised
    /\ elements[3].type = "dict"
    /\ Len(yielded) = 1
    /\ yielded[1].id = elements[3].id

\* a message object with a timestamp whose content is a string or an object
\* with parts
HasContentShape(msg) ==
    /\ msg.type = "dict"
    /\ msg.create_time.type = "number"
    /\ msg.content.type \in {"str", "dict"}

\* the content the message is to be decoded with
ContentText(msg) ==
    IF msg.content.type = "str" THEN msg.content.text
    ELSE LET parts == SelectSeq(msg.content.parts, Truthy)
         IN  Join([i \in DOMAIN parts |-> parts[i].text], <<" ">>)

\* C22: a consumed conversation whose messages have their content as one
\* string or as a list of parts is yielded, each message decoded with the
\* string, or with the parts joined by single spaces
BothContentShapesDecoded ==
    \A i \in 1..ppos :
        ( /\ elements[i].type = "dict"
          /\ elements[i].messages # <<>>
          /\ \A k \in DOMAIN elements[i].messages :
                HasContentShape(elements[i].messages[k]) )
        => \E j \in DOMAIN yielded :
              /\ yielded[j].id = elements[i].id
              /\ Len(yielded[j].messages) = Len(elements[i].messages)
              /\ \A k \in DOMAIN elements[i].messages :
                    yielded[j].messages[k].content
                    = ContentText(elements[i].messages[k])

\* C23: every yielded conversation has a message whose content is not empty
\* after trimming
YieldedHaveNonEmptyMessage ==
    \A j \in DOMAIN yielded :
        \E k \in DOMAIN yielded[j].messages :
            Strip(yielded[j].messages[k].content) # <<>>

-----------------------------------------------------------------------------
(* Properties of closing the pool (SpecClose).                             *)

\* C28: once the pool is closed no caller obtains a connection, a caller
\* still without one ends with an error, and closing again changes nothing
NoConnectionAfterClose ==
    /\ [][ closed => \A t \in PoolCallers : (held'[t] # 0) => (held[t] # 0) ]_vars
    /\ [][ closed => \A t \in PoolCallers :
                        (held[t] = 0) => (pc'[t] \notin {"select", "done"}) ]_vars
    /\ [][ closed => (closed' /\ all_connections' = all_connections) ]_vars

-----------------------------------------------------------------------------
(* Properties of the mapping traversal (SpecMapping).                      *)

\* C30: the traversal never ends in an error, and no node's message is
\* collected more than once
MappingNodesVisitedOnce ==
    /\ walk.status # "raised"
    /\ \A n \in NodeIds :
          Cardinality({ i \in DOMAIN walk.messages : walk.messages[i] = n }) <= 1

=============================================================================
